---- MODULE Spec2Model ----
(***************************************************************************)
(* LoRa gateway bridge (sylvia-iot-examples): the network bridge's event   *)
(* loop and its broker callback (lora-ifroglab), the bounded "latest"      *)
(* history buffers shared by the network and the application bridge, and   *)
(* the dongle driver's send-and-wait command loop (lora_usb.rs).           *)
(*                                                                         *)
(* Eight specifications share the variables:                               *)
(*   Spec      the network bridge: event loop + on_dldata callback         *)
(*   SpecHist  the history buffers under their mutexes, every writer and   *)
(*             reader site of both bridges                                  *)
(*   SpecCmd   one dongle command: write, read_ack, not_timeout            *)
(*   SpecFn    the driver's pure parts: crc, the command frames            *)
(*   SpecLock  the four mutexes of a bridge and the tasks that take them   *)
(*   SpecDev   the device (dev-demo): the event loop of dev_task.rs        *)
(*   SpecApp   the application bridge (app-demo): post_dldata and the      *)
(*             broker's downlink response and result callbacks             *)
(*   SpecLive  the network bridge's main loop under weak fairness          *)
(***************************************************************************)
EXTENDS Integers, Sequences, FiniteSets, TLC

VARIABLES
    pc,             \* event loop position (lora_task.rs create_event_loop)
    counter,        \* `counter`: last observed RX frame counter (u16)
    rx,             \* `rx_data` + `read_data.rssi` of the current tick, and the
                    \* cmd06 ACK payload they were read from
    data,           \* `data`: the downlink popped in the current tick
    latest_uldata,  \* QueueRsc.latest_uldata
    latest_dldata,  \* QueueRsc.latest_dldata
    queue_dldata,   \* QueueRsc.queue_dldata: HashMap<String, VecDeque<DlData>>
    ops,            \* dongle commands and broker sends of the loop since the
                    \* tick's poll (since the port was opened, while connecting)
    cb,             \* on_dldata callback: None before the first call, then the result
                    \* it is about to send, or what it returned
    n_ul,           \* uplink frames read so far
    n_dl,           \* downlinks delivered to on_dldata so far
    accepted,       \* downlinks appended by on_dldata, in order
    popped,         \* downlinks popped by the loop, in order
    hist,           \* SpecHist, SpecLock: mutex holders, task positions, insert counts
    cmd,            \* SpecCmd: one command's send-and-wait state
    port_connected, \* SpecDev: `port_connected` of the device loop
    chip_info,      \* SpecDev: `chip_info` of the connected port
    sensor_buff,    \* SpecDev: `buff`, the TX buffer of the tick
    broker          \* SpecApp: the downlinks sent to the broker and the callbacks
                    \* it has delivered for each

netvars == <<pc, counter, rx, data, latest_uldata, latest_dldata, queue_dldata,
             ops, cb, n_ul, n_dl, accepted, popped>>
devvars == <<port_connected, chip_info, sensor_buff>>
vars == <<netvars, hist, cmd, devvars, broker>>

----------------------------------------------------------------------------
(* Bounds of the model. *)
MaxUl == 2
MaxDl == 2
MaxInserts == 150
MaxWrites == 3
MaxCrcLen == 4
MaxLockIns == 1

(* Program constants. *)
MAX_DATA == 100
TIMEOUT_MS == 1000
ACK_SLEEP_MS == 20
SLEEP_IDLE_MS == 100

None == [none |-> TRUE]

----------------------------------------------------------------------------
(* Pure helpers: hex encoding, address formatting, byte decoding. *)

HexChars == <<"0","1","2","3","4","5","6","7","8","9","a","b","c","d","e","f">>

Pow16(n) == IF n = 0 THEN 1 ELSE IF n = 1 THEN 16 ELSE IF n = 2 THEN 256
            ELSE IF n = 3 THEN 4096 ELSE IF n = 4 THEN 65536
            ELSE IF n = 5 THEN 1048576 ELSE IF n = 6 THEN 16777216
            ELSE 268435456

\* hex::encode: two lowercase digits per byte, high nibble first
hex_encode(bytes) ==
    [i \in 1..(2 * Len(bytes)) |->
        LET b == bytes[(i + 1) \div 2]
        IN  IF i % 2 = 1 THEN HexChars[(b \div 16) + 1] ELSE HexChars[(b % 16) + 1]]

\* format!("{:08x?}", node_id)
format_addr(node_id) ==
    [i \in 1..8 |-> HexChars[((node_id \div Pow16(8 - i)) % 16) + 1]]

u16_from_be_bytes(b) == b[1] * 256 + b[2]
u32_from_be_bytes(b) == ((b[1] * 256 + b[2]) * 256 + b[3]) * 256 + b[4]
\* mutant of i16_from_be_bytes: the two bytes in little-endian order
i16_from_le_bytes(b) ==
    LET u == b[2] * 256 + b[1] IN IF u >= 32768 THEN u - 65536 ELSE u

i16_from_be_bytes(b) ==
    LET u == u16_from_be_bytes(b) IN IF u >= 32768 THEN u - 65536 ELSE u

IsHexChar(c) == \E i \in 1..16 : HexChars[i] = c \/ c \in {"A","B","C","D","E","F"}

\* hex::decode_to_slice(data, &mut buff[8..8 + data_len / 2]) succeeds
hex_decode_ok(s) ==
    /\ Len(s) % 2 = 0
    /\ \A i \in 1..Len(s) : IsHexChar(s[i])

SubSeqFrom(s, k) == IF k > Len(s) THEN <<>> ELSE SubSeq(s, k, Len(s))

HexVal(c) ==
    IF c = "A" THEN 10 ELSE IF c = "B" THEN 11 ELSE IF c = "C" THEN 12
    ELSE IF c = "D" THEN 13 ELSE IF c = "E" THEN 14 ELSE IF c = "F" THEN 15
    ELSE (CHOOSE i \in 1..16 : HexChars[i] = c) - 1

\* the bytes hex::decode_to_slice writes
hex_decode(s) == [i \in 1..(Len(s) \div 2) |-> 16 * HexVal(s[2 * i - 1]) + HexVal(s[2 * i])]

u32_to_be_bytes(n) ==
    <<(n \div 16777216) % 256, (n \div 65536) % 256, (n \div 256) % 256, n % 256>>

----------------------------------------------------------------------------
(* History buffers: push_back, then pop_front when longer than MAX_DATA. *)

\* mutant of push_back: push_front
push_front(q, x) == <<x>> \o q

push_back(q, x) == Append(q, x)

\* mutant of trim_latest: the length test off by one
trim_latest_late(q) == IF Len(q) > MAX_DATA + 1 THEN Tail(q) ELSE q

\* mutant of trim_latest: pop_back instead of pop_front
trim_latest_pop_back(q) == IF Len(q) > MAX_DATA THEN SubSeq(q, 1, Len(q) - 1) ELSE q

trim_latest(q) == IF Len(q) > MAX_DATA THEN Tail(q) ELSE q

push_latest(q, x) == trim_latest(push_back(q, x))

----------------------------------------------------------------------------
(* Dongle driver as the event loop sees it: what each command returns for  *)
(* the result of its send-and-wait loop (an error, or read_ack's payload). *)

AckErr == [ok |-> FALSE]
AckOk(p) == [ok |-> TRUE, data |-> p]

\* cmd03_set_values, after the send-and-wait loop
cmd03_set_values(ack) ==
    IF ~ack.ok THEN "err"
    ELSE IF Len(ack.data) # 1 THEN "err"
    ELSE IF ack.data[1] # 85 THEN "err"
    ELSE "ok"

\* cmd05_write_data: rejects a buffer outside 1..=16 bytes before writing
cmd05_write_data(buf, ack) ==
    IF Len(buf) < 1 \/ Len(buf) > 16 THEN "err"
    ELSE IF ~ack.ok THEN "err"
    ELSE IF Len(ack.data) # 1 THEN "err"
    ELSE IF ack.data[1] # 85 THEN "err"
    ELSE "ok"

\* cmd06_read_data: None on an empty ACK, else data without the 2 RSSI bytes
cmd06_read_data(ack) ==
    IF ~ack.ok THEN [kind |-> "err"]
    ELSE IF Len(ack.data) = 0 THEN [kind |-> "none"]
    ELSE IF Len(ack.data) < 5 THEN [kind |-> "err"]
    ELSE LET n == Len(ack.data)
         IN  [kind |-> "some",
              data |-> SubSeq(ack.data, 1, n - 2),
              rssi |-> i16_from_be_bytes(SubSeq(ack.data, n - 1, n))]

\* mutant of cmd00_chip_info: the node id read when the payload has 8 bytes
cmd00_chip_info_len8(ack) ==
    IF ~ack.ok THEN [kind |-> "err"]
    ELSE IF Len(ack.data) < 2 THEN [kind |-> "err"]
    ELSE [kind |-> "ok", fw_ver |-> ack.data[2], chip_id |-> ack.data[1],
          node_id |-> IF Len(ack.data) >= 8 /\ Len(ack.data) >= 6
                      THEN u32_from_be_bytes(SubSeq(ack.data, 3, 6)) ELSE 0]

\* cmd00_chip_info after read_ack gave the payload `data`: data[0] is the
\* chip id, data[1] the firmware version, data[2..6] the node id
cmd00_chip_info(ack) ==
    IF ~ack.ok THEN [kind |-> "err"]
    ELSE IF Len(ack.data) < 2 THEN [kind |-> "err"]
    ELSE [kind |-> "ok", fw_ver |-> ack.data[2], chip_id |-> ack.data[1],
          node_id |-> IF ack.data[2] >= 8 /\ Len(ack.data) >= 6
                      THEN u32_from_be_bytes(SubSeq(ack.data, 3, 6)) ELSE 0]

\* cmd07_read_data_counter: dst.clone_from_slice(data) panics unless the
\* payload has exactly 2 bytes
cmd07_read_data_counter(ack) ==
    IF ~ack.ok THEN [kind |-> "err"]
    ELSE IF Len(ack.data) # 2 THEN [kind |-> "panic"]
    ELSE [kind |-> "ok", value |-> u16_from_be_bytes(ack.data)]

\* mutant of parse_rx_data: a frame of the 4 node id bytes is enough
parse_rx_data_min4(raw) ==
    IF Len(raw) < 4 THEN [kind |-> "err"]
    ELSE [kind |-> "ok",
          node_id |-> u32_from_be_bytes(SubSeq(raw, 1, 4)),
          payload |-> SubSeqFrom(raw, 9)]

\* mutant of parse_rx_data: the payload taken one byte early
parse_rx_data_from7(raw) ==
    IF Len(raw) < 8 THEN [kind |-> "err"]
    ELSE [kind |-> "ok",
          node_id |-> u32_from_be_bytes(SubSeq(raw, 1, 4)),
          payload |-> SubSeqFrom(raw, 8)]

\* parse_rx_data
parse_rx_data(raw) ==
    IF Len(raw) < 8 THEN [kind |-> "err"]
    ELSE [kind |-> "ok",
          node_id |-> u32_from_be_bytes(SubSeq(raw, 1, 4)),
          payload |-> SubSeqFrom(raw, 9)]

\* whether a cmd06 ACK carries a frame parse_rx_data accepts
parse_rx_data_ok(ack) ==
    LET r == cmd06_read_data(ack)
    IN  r.kind = "some" /\ parse_rx_data(r.data).kind = "ok"

(* Replies the dongle can give (inputs of the model). *)
Acks03 == {AckErr, AckOk(<<85>>), AckOk(<<0>>)}
Acks05 == {AckErr, AckOk(<<85>>)}
Acks07 == {AckErr, AckOk(<<0, 5>>), AckOk(<<255, 255>>),
           AckOk(<<0, 0>>), AckOk(<<5>>)}
Acks06 == {AckErr, AckOk(<<>>), AckOk(<<1, 2, 3>>),
           AckOk(<<0, 0, 0, 42, 0, 0, 0, 0, 222, 173, 255, 240>>),
           AckOk(<<10, 11, 12, 13, 9, 9, 9, 9, 0, 7>>),
           AckOk(<<0, 0, 0, 42, 0, 0, 0, 255, 240>>)}

(* Downlinks the broker can deliver (inputs of the model). *)
DlPayloads == {<<222, 173, 190, 239, 0, 1, 128, 255>>, <<1, 2, 3, 4, 5, 6, 7, 8, 9>>}
BrokerAddrs == {format_addr(42), format_addr(168496141)}

----------------------------------------------------------------------------
(* Network bridge: the event loop of lora_task.rs and on_dldata.           *)

\* `buff` as cmd05_write_data receives it: node_id, 4 zero bytes, and the
\* decoded payload (left zero when the payload was rejected as too long)
tx_buff(d, node_id) ==
    LET body == IF Len(d.data) > 16 THEN [i \in 1..8 |-> 0]
                ELSE LET b == hex_decode(d.data)
                     IN  [i \in 1..8 |-> IF i <= Len(b) THEN b[i] ELSE 0]
    IN  u32_to_be_bytes(node_id) \o <<0, 0, 0, 0>> \o body

\* whether `&buff[..8 + data_len / 2]` is inside the 16-byte buffer
tx_slice_in_range(d) == 8 + (Len(d.data) \div 2) <= 16

\* mutant of exceeds_limit: 16 characters are already too long
exceeds_limit_inclusive(d) == Len(d.data) >= 16

\* `data_len > 16`: the downlink is answered with status 1
exceeds_limit(d) == Len(d.data) > 16

\* mutant of queue_push: a new VecDeque inserted whether or not the key is there
queue_push_insert(q, addr, rec) ==
    (addr :> <<rec>>) @@ q

\* mutant of queue_push: push_front instead of push_back
queue_push_front(q, addr, rec) ==
    LET q1 == IF addr \in DOMAIN q THEN q ELSE (addr :> <<>>) @@ q
    IN  [q1 EXCEPT ![addr] = <<rec>> \o @]

\* the pending queue after on_dldata appended `rec`
queue_push(q, addr, rec) ==
    LET q1 == IF addr \in DOMAIN q THEN q ELSE (addr :> <<>>) @@ q
    IN  [q1 EXCEPT ![addr] = Append(@, rec)]

\* mutant of queue_head: the newest record of the queue instead of the oldest
queue_head_back(q, addr) ==
    IF addr \notin DOMAIN q THEN None
    ELSE IF q[addr] = <<>> THEN None
    ELSE q[addr][Len(q[addr])]

\* the head the loop pops for `addr`, or None
queue_head(q, addr) ==
    IF addr \notin DOMAIN q THEN None
    ELSE IF q[addr] = <<>> THEN None
    ELSE Head(q[addr])

\* mutant of queue_pop: the head is read but stays in the queue
queue_pop_keep(q, addr) == q

\* the pending queue after the loop's pop_front for `addr`
queue_pop(q, addr) ==
    IF addr \notin DOMAIN q THEN q
    ELSE IF q[addr] = <<>> THEN q
    ELSE [q EXCEPT ![addr] = Tail(@)]

\* mutant of conn_counter_next: an error of read_counter breaks out of
\* the connect loop too
conn_counter_next_break(r) ==
    IF r.kind = "panic" THEN "aborted" ELSE "poll"

\* where the loop goes after cmd07 while connecting
conn_counter_next(r) ==
    IF r.kind = "ok" THEN "poll" ELSE IF r.kind = "panic" THEN "aborted" ELSE "open"

\* mutant of poll_next: the counters compared by order instead of inequality
poll_next_ordered(r, old) ==
    IF r.kind = "panic" THEN "aborted"
    ELSE IF r.kind = "err" THEN "poll"
    ELSE IF r.value > old THEN "read_data" ELSE "poll"

\* where the loop goes after the tick's cmd07
poll_next(r, old) ==
    IF r.kind = "panic" THEN "aborted"
    ELSE IF r.kind = "err" THEN "poll"
    ELSE IF old = r.value THEN "poll" ELSE "read_data"

\* where the loop goes after send_dldata_result(status 1)
send_result_next(ok) == IF ok THEN "set_tx" ELSE "poll"

\* mutant of set_tx_next: the write follows whatever set_values returned
set_tx_next_always(res) == "write_data"

\* where the loop goes after cmd03_set_values(2, ..)
set_tx_next(res) == IF res = "ok" THEN "write_data" ELSE "restore_rx_err"

\* where the loop goes after a failed post-TX cmd03_set_values(3, ..)
restore_rx_next(res) == "poll"

InitNet ==
    /\ port_connected = TRUE /\ chip_info = None /\ sensor_buff = None /\ broker = None
    /\ pc = "open"
    /\ counter = 0
    /\ rx = None
    /\ data = None
    /\ latest_uldata = <<>>
    /\ latest_dldata = <<>>
    /\ queue_dldata = <<>>
    /\ ops = <<>>
    /\ cb = None
    /\ n_ul = 0
    /\ n_dl = 0
    /\ accepted = <<>>
    /\ popped = <<>>

loopvars == <<pc, counter, rx, data, ops>>
cbvars == <<cb, n_dl, accepted>>

\* connect: the sleep, then IfroglabLora::new
LoopOpen(ok) ==
    /\ pc = "open"
    /\ pc' = IF ok THEN "conn_set_rx" ELSE "open"
    /\ ops' = <<[op |-> "sleep", ms |-> SLEEP_IDLE_MS], [op |-> "new", ok |-> ok]>>
    /\ UNCHANGED <<counter, rx, data, latest_uldata, latest_dldata, queue_dldata,
                   n_ul, popped, cbvars,
                   hist, cmd, devvars, broker>>

\* connect: cmd03_set_values(3, freq, power)
LoopConnSetRx(ack) ==
    /\ pc = "conn_set_rx"
    /\ LET res == cmd03_set_values(ack)
       IN  /\ pc' = IF res = "ok" THEN "conn_counter" ELSE "open"
           /\ ops' = Append(ops, [op |-> "cmd03", mode |-> 3, res |-> res])
    /\ UNCHANGED <<counter, rx, data, latest_uldata, latest_dldata, queue_dldata,
                   n_ul, popped, cbvars,
                   hist, cmd, devvars, broker>>

\* connect: cmd07_read_data_counter, then break (port, counter)
LoopConnCounter(ack) ==
    /\ pc = "conn_counter"
    /\ LET r == cmd07_read_data_counter(ack)
       IN  /\ pc' = conn_counter_next(r)
           /\ counter' = IF r.kind = "ok" THEN r.value ELSE counter
           /\ ops' = Append(ops, [op |-> "cmd07", res |-> r, old |-> counter])
    /\ UNCHANGED <<rx, data, latest_uldata, latest_dldata, queue_dldata,
                   n_ul, popped, cbvars,
                   hist, cmd, devvars, broker>>

\* main loop: sleep, then cmd07_read_data_counter
LoopPoll(ack) ==
    /\ pc = "poll"
    /\ LET r == cmd07_read_data_counter(ack)
       IN  /\ pc' = poll_next(r, counter)
           /\ counter' = IF r.kind = "ok" THEN r.value ELSE counter
           /\ ops' = <<[op |-> "cmd07", res |-> r, old |-> counter]>>
    /\ UNCHANGED <<rx, data, latest_uldata, latest_dldata, queue_dldata,
                   n_ul, popped, cbvars,
                   hist, cmd, devvars, broker>>

\* cmd06_read_data, parse_rx_data, and the push into latest_uldata, with
\* t what Utc::now() gives for the uplink's time
LoopReadDataAt(ack, t) ==
    /\ pc = "read_data"
    /\ LET r == cmd06_read_data(ack)
           f == IF r.kind = "some" THEN parse_rx_data(r.data) ELSE [kind |-> "err"]
       IN  /\ ops' = Append(ops, [op |-> "cmd06", res |-> r.kind])
           /\ IF f.kind = "ok"
              THEN /\ rx' = [node_id |-> f.node_id, payload |-> f.payload,
                             rssi |-> r.rssi, ack |-> ack.data]
                   /\ n_ul' = t
                   /\ latest_uldata' = push_latest(latest_uldata,
                          [time |-> t, network_addr |-> format_addr(f.node_id),
                           data |-> hex_encode(f.payload), rssi |-> r.rssi])
                   /\ pc' = "send_uldata"
              ELSE /\ pc' = "poll"
                   /\ UNCHANGED <<rx, n_ul, latest_uldata>>
    /\ UNCHANGED <<counter, data, latest_dldata, queue_dldata, popped, cbvars,
                   hist, cmd, devvars, broker>>

\* the same with the uplinks numbered, MaxUl of them
LoopReadData(ack) ==
    /\ pc = "read_data"
    /\ parse_rx_data_ok(ack) => n_ul < MaxUl
    /\ LoopReadDataAt(ack, n_ul + 1)

\* mgr.send_uldata(&uldata)
LoopSendUldata(ok) ==
    /\ pc = "send_uldata"
    /\ ops' = Append(ops, [op |-> "send_uldata", ok |-> ok, time |-> n_ul,
                           network_addr |-> format_addr(rx.node_id),
                           data |-> hex_encode(rx.payload), rssi |-> rx.rssi])
    /\ pc' = IF ok THEN "pop" ELSE "poll"
    /\ rx' = IF ok THEN rx ELSE None
    /\ UNCHANGED <<counter, data, latest_uldata, latest_dldata, queue_dldata,
                   n_ul, popped, cbvars,
                   hist, cmd, devvars, broker>>

\* pop_front of queue_dldata[addr], the length check and the hex decode
LoopPop ==
    /\ pc = "pop"
    /\ LET addr == format_addr(rx.node_id)
           d == queue_head(queue_dldata, addr)
       IN  /\ queue_dldata' = queue_pop(queue_dldata, addr)
           /\ IF d = None
              THEN /\ pc' = "poll"
                   /\ rx' = None
                   /\ UNCHANGED <<data, popped, ops>>
              ELSE /\ popped' = Append(popped, d)
                   /\ ops' = Append(ops, [op |-> "pop", data_id |-> d.data_id])
                   /\ pc' = IF exceeds_limit(d) THEN "send_result"
                            ELSE IF hex_decode_ok(d.data) THEN "set_tx" ELSE "poll"
                   /\ data' = IF pc' = "poll" THEN None ELSE d
                   /\ rx' = IF pc' = "poll" THEN None ELSE rx
    /\ UNCHANGED <<counter, latest_uldata, latest_dldata, n_ul, cbvars,
                   hist, cmd, devvars, broker>>

\* mgr.send_dldata_result({data_id, status: 1, "exceed 16-byte hexadecimal"})
LoopSendResult(ok) ==
    /\ pc = "send_result"
    /\ ops' = Append(ops, [op |-> "send_dldata_result", ok |-> ok,
                           data_id |-> data.data_id, status |-> 1,
                           message |-> "exceed 16-byte hexadecimal"])
    /\ pc' = send_result_next(ok)
    /\ rx' = IF pc' = "poll" THEN None ELSE rx
    /\ data' = IF pc' = "poll" THEN None ELSE data
    /\ UNCHANGED <<counter, latest_uldata, latest_dldata, queue_dldata,
                   n_ul, popped, cbvars,
                   hist, cmd, devvars, broker>>

\* cmd03_set_values(2, freq, power)
LoopSetTx(ack) ==
    /\ pc = "set_tx"
    /\ LET res == cmd03_set_values(ack)
       IN  /\ ops' = Append(ops, [op |-> "cmd03", mode |-> 2, res |-> res])
           /\ pc' = set_tx_next(res)
    /\ UNCHANGED <<counter, rx, data, latest_uldata, latest_dldata, queue_dldata,
                   n_ul, popped, cbvars,
                   hist, cmd, devvars, broker>>

\* cmd05_write_data(&buff[..8 + data_len / 2]); the slice panics out of range
LoopWriteData(ack) ==
    /\ pc = "write_data"
    /\ IF ~tx_slice_in_range(data)
       THEN /\ pc' = "aborted"
            /\ UNCHANGED ops
       ELSE LET buf == SubSeq(tx_buff(data, rx.node_id), 1, 8 + (Len(data.data) \div 2))
                res == cmd05_write_data(buf, ack)
            IN  /\ ops' = Append(ops, [op |-> "cmd05", data |-> buf, res |-> res])
                /\ pc' = IF res = "ok" THEN "restore_rx" ELSE "restore_rx_err"
    /\ UNCHANGED <<counter, rx, data, latest_uldata, latest_dldata, queue_dldata,
                   n_ul, popped, cbvars,
                   hist, cmd, devvars, broker>>

\* cmd03_set_values(3, ..) after a failed set TX / write, then `continue`
LoopRestoreRxErr(ack) ==
    /\ pc = "restore_rx_err"
    /\ LET res == cmd03_set_values(ack)
       IN  /\ ops' = Append(ops, [op |-> "cmd03", mode |-> 3, res |-> res])
           /\ pc' = restore_rx_next(res)
    /\ rx' = None
    /\ data' = None
    /\ UNCHANGED <<counter, latest_uldata, latest_dldata, queue_dldata,
                   n_ul, popped, cbvars,
                   hist, cmd, devvars, broker>>

\* cmd03_set_values(3, ..) after the write, then stamp `sent` and push the
\* record into latest_dldata
LoopRestoreRx(ack) ==
    /\ pc = "restore_rx"
    /\ LET res == cmd03_set_values(ack)
       IN  /\ ops' = Append(ops, [op |-> "cmd03", mode |-> 3, res |-> res])
           /\ pc' = restore_rx_next(res)
    /\ latest_dldata' = push_latest(latest_dldata, [data EXCEPT !.sent = "t"])
    /\ rx' = None
    /\ data' = None
    /\ UNCHANGED <<counter, latest_uldata, queue_dldata, n_ul, popped, cbvars,
                   hist, cmd, devvars, broker>>

\* on_dldata is between its push and its return
InOnDlData == cb # None /\ cb.at = "send"

\* on_dldata: build the DlData and append it to queue_dldata[addr]
OnDlData(addr, payload) ==
    /\ ~InOnDlData
    /\ n_dl < MaxDl
    /\ LET rec == [data_id |-> n_dl + 1, sent |-> "", data |-> hex_encode(payload),
                   network_addr |-> addr]
       IN  /\ queue_dldata' = queue_push(queue_dldata, addr, rec)
           /\ accepted' = Append(accepted, rec)
    /\ n_dl' = n_dl + 1
    /\ cb' = [at |-> "send", result |-> [data_id |-> n_dl + 1, status |-> -1]]
    /\ UNCHANGED <<loopvars, latest_uldata, latest_dldata, n_ul, popped,
                   hist, cmd, devvars, broker>>

\* on_dldata: mgr.send_dldata_result({data_id, status: -1, None}), return Ok
OnDlDataResult(ok) ==
    /\ InOnDlData
    /\ cb' = [at |-> "returned", ret |-> "Ok"]
    /\ UNCHANGED <<loopvars, latest_uldata, latest_dldata, queue_dldata, n_ul, n_dl,
                   accepted, popped,
                   hist, cmd, devvars, broker>>

NextNet ==
    \/ \E ok \in BOOLEAN : LoopOpen(ok)
    \/ \E ack \in Acks03 : LoopConnSetRx(ack)
    \/ \E ack \in Acks07 : LoopConnCounter(ack)
    \/ \E ack \in Acks07 : LoopPoll(ack)
    \/ \E ack \in Acks06 : LoopReadData(ack)
    \/ \E ok \in BOOLEAN : LoopSendUldata(ok)
    \/ LoopPop
    \/ \E ok \in BOOLEAN : LoopSendResult(ok)
    \/ \E ack \in Acks03 : LoopSetTx(ack)
    \/ \E ack \in Acks05 : LoopWriteData(ack)
    \/ \E ack \in Acks03 : LoopRestoreRxErr(ack)
    \/ \E ack \in Acks03 : LoopRestoreRx(ack)
    \/ \E addr \in BrokerAddrs, payload \in DlPayloads : OnDlData(addr, payload)
    \/ \E ok \in BOOLEAN : OnDlDataResult(ok)

InitIdle == hist = None /\ cmd = None

Init == InitNet /\ InitIdle
Next == NextNet
Spec == Init /\ [][Next]_vars

----------------------------------------------------------------------------
(* History buffers under their mutexes: every site of the two bridges that *)
(* locks latest_uldata or latest_dldata. A record is represented by its    *)
(* insertion number. hist.mutex[h] is the holder of the mutex of history h *)
(* ("ul" or "dl"), hist.at[t] what task t is doing, hist.ins[h] the number *)
(* of inserts made into h.                                                 *)

Histories == {"ul", "dl"}
HistTasks(b) == IF b = "net" THEN {"loop", "http"} ELSE {"handler", "http"}
History(h) == IF h = "ul" THEN latest_uldata ELSE latest_dldata

\* net: the event loop pushes into both histories (lora_task.rs:176, 263);
\* app: on_uldata pushes uplinks, post_dldata pushes downlinks
CanPush(b, t, h) ==
    \/ b = "net" /\ t = "loop"
    \/ b = "app" /\ t = "handler" /\ h = "ul"
    \/ b = "app" /\ t = "http" /\ h = "dl"

\* app: on_dldata_resp and on_dldata_result rewrite a record in place
CanUpdate(b, t, h) == b = "app" /\ t = "handler" /\ h = "dl"

\* get_uldata and get_dldata clone the history
CanRead(b, t, h) == t = "http"

InitHist ==
    /\ InitNet
    /\ cmd = None
    /\ \E b \in {"net", "app"} :
          hist = [bridge |-> b,
                  mutex |-> [h \in Histories |-> "free"],
                  at |-> [t \in HistTasks(b) |-> None],
                  ins |-> [h \in Histories |-> 0]]

\* `.lock().unwrap()` of a history mutex by a writer, an updater or a reader
HistLock(t, h, step) ==
    /\ hist # None
    /\ t \in HistTasks(hist.bridge)
    /\ hist.at[t] = None
    /\ hist.mutex[h] = "free"
    /\ \/ step = "push" /\ CanPush(hist.bridge, t, h)
                        /\ hist.ins["ul"] + hist.ins["dl"] < MaxInserts
       \/ step = "update" /\ CanUpdate(hist.bridge, t, h)
       \/ step = "read" /\ CanRead(hist.bridge, t, h)
    /\ hist' = [hist EXCEPT !.mutex[h] = t, !.at[t] = [h |-> h, step |-> step]]
    /\ UNCHANGED <<netvars, cmd, devvars, broker>>

\* `(*mutex).push_back(data)`
HistPushBack(t) ==
    /\ hist # None
    /\ t \in HistTasks(hist.bridge)
    /\ hist.at[t] # None
    /\ hist.at[t].step = "push"
    /\ LET h == hist.at[t].h
       IN  /\ latest_uldata' = IF h = "ul" THEN push_back(latest_uldata, hist.ins[h] + 1)
                               ELSE latest_uldata
           /\ latest_dldata' = IF h = "dl" THEN push_back(latest_dldata, hist.ins[h] + 1)
                               ELSE latest_dldata
           /\ hist' = [hist EXCEPT !.ins[h] = @ + 1, !.at[t].step = "trim"]
    /\ UNCHANGED <<pc, counter, rx, data, queue_dldata, ops, cb, n_ul, n_dl,
                   accepted, popped, cmd, devvars, broker>>

\* `if (*mutex).len() > MAX_DATA { (*mutex).pop_front(); }`, then the guard drops
HistTrim(t) ==
    /\ hist # None
    /\ t \in HistTasks(hist.bridge)
    /\ hist.at[t] # None
    /\ hist.at[t].step = "trim"
    /\ LET h == hist.at[t].h
       IN  /\ latest_uldata' = IF h = "ul" THEN trim_latest(latest_uldata)
                               ELSE latest_uldata
           /\ latest_dldata' = IF h = "dl" THEN trim_latest(latest_dldata)
                               ELSE latest_dldata
           /\ hist' = [hist EXCEPT !.mutex[h] = "free", !.at[t] = None]
    /\ UNCHANGED <<pc, counter, rx, data, queue_dldata, ops, cb, n_ul, n_dl,
                   accepted, popped, cmd, devvars, broker>>

\* the guard of an updater or a reader drops
HistUnlock(t) ==
    /\ hist # None
    /\ t \in HistTasks(hist.bridge)
    /\ hist.at[t] # None
    /\ hist.at[t].step \in {"update", "read"}
    /\ hist' = [hist EXCEPT !.mutex[hist.at[t].h] = "free", !.at[t] = None]
    /\ UNCHANGED <<netvars, cmd, devvars, broker>>

AllHistTasks == {"loop", "handler", "http"}

NextHist ==
    \/ \E t \in AllHistTasks, h \in Histories, step \in {"push", "update", "read"} :
          HistLock(t, h, step)
    \/ \E t \in AllHistTasks : HistPushBack(t)
    \/ \E t \in AllHistTasks : HistTrim(t)
    \/ \E t \in AllHistTasks : HistUnlock(t)

SpecHist == InitHist /\ [][NextHist]_vars

----------------------------------------------------------------------------
(* Properties of the history buffers (checked under SpecHist).             *)

\* the mutex of history h is not held by a task that is inserting
OutsideInsert(h) ==
    \/ hist.mutex[h] = "free"
    \/ hist.at[hist.mutex[h]].step \in {"update", "read"}

\* the history insert as the specification words it
spec_insert(q, x) == IF Len(q) = MAX_DATA THEN Append(Tail(q), x) ELSE Append(q, x)

LastInserted(n) ==
    LET k == IF n < MAX_DATA THEN n ELSE MAX_DATA
    IN  [i \in 1..k |-> n - k + i]

\* C1: outside an insert's critical section (mutex free, or held by a reader
\* that is cloning the history or by an updater) either history holds at
\* most MAX_DATA records, in the network and in the application bridge.
C1_HistoryBounded ==
    \A h \in Histories : OutsideInsert(h) => Len(History(h)) <= MAX_DATA

\* C1 witness: a reader clones the uplink history after more than MAX_DATA
\* inserts while a writer is in the middle of an insert into the other one.
C1_Witness ==
    /\ hist.ins["ul"] > MAX_DATA
    /\ hist.mutex["ul"] = "http"
    /\ Len(latest_uldata) = MAX_DATA
    /\ hist.mutex["dl"] \notin {"free", "http"}

\* C2: after n inserts a history is exactly the last min(n, MAX_DATA)
\* inserted records in insertion order, and on it the implemented insert
\* (push, then trim) gives what the specified insert (trim, then push) gives.
C2_InsertKeepsLatest ==
    \A h \in Histories :
        OutsideInsert(h) =>
            /\ History(h) = LastInserted(hist.ins[h])
            /\ push_latest(History(h), hist.ins[h] + 1)
                 = spec_insert(History(h), hist.ins[h] + 1)

\* C2 witness: 150 inserts left 100 records, the first 50 are gone.
C2_Witness ==
    /\ hist.ins["ul"] = 150
    /\ hist.mutex["ul"] = "free"
    /\ Len(latest_uldata) = 100
    /\ latest_uldata[1] = 51

----------------------------------------------------------------------------
(* Dongle driver: one command's send-and-wait loop (lora_usb.rs). cmd is   *)
(* the state of the command in progress: pc, start/now (ms), the reused    *)
(* 24-byte buff, size (bytes read by this read_ack), pending (bytes the    *)
(* port has still to deliver), writes (times the command was written),     *)
(* fail (the error and elapsed time of the read_ack that just failed) and  *)
(* result (what the send-and-wait loop ended with).                        *)

Bit(a, i) == (a \div (2 ^ i)) % 2

\* mutant of Xor8: a wrapping sum instead of the XOR
Add8(a, b) == (a + b) % 256

Xor8(a, b) ==
    LET x(i) == IF Bit(a, i) = Bit(b, i) THEN 0 ELSE 2 ^ i
    IN  x(0) + x(1) + x(2) + x(3) + x(4) + x(5) + x(6) + x(7)

\* crc: `result ^= d` for every d of data, starting from 0. The XORs are
\* grouped as a balanced tree (^ is associative) to keep the evaluation shallow.
RECURSIVE crc_range(_, _, _)
crc_range(bytes, lo, hi) ==
    IF lo > hi THEN 0
    ELSE IF lo = hi THEN Xor8(0, bytes[lo])
    ELSE LET mid == (lo + hi) \div 2
         IN  Xor8(crc_range(bytes, lo, mid), crc_range(bytes, mid + 1, hi))

crc(bytes) == crc_range(bytes, 1, Len(bytes))

BuffLen == 24

\* mutant of read_into: every read lands at the start of buff
read_into_start(buff, size, chunk) ==
    [i \in 1..BuffLen |-> IF i <= Len(chunk) THEN chunk[i] ELSE buff[i]]

\* port.read(&mut buff[size..]): `chunk` lands at offset size
read_into(buff, size, chunk) ==
    [i \in 1..BuffLen |-> IF i > size /\ i <= size + Len(chunk) THEN chunk[i - size]
                          ELSE buff[i]]

\* mutant of not_timeout: twice the budget
not_timeout_double(start, now) == ~(now - start > 2 * TIMEOUT_MS)

\* mutant of not_timeout: the budget compared with >= instead of >
not_timeout_strict(start, now) == ~(now - start >= TIMEOUT_MS)

\* not_timeout: Ok (retry) unless more than TIMEOUT_MS elapsed since start
not_timeout(start, now) == ~(now - start > TIMEOUT_MS)

\* mutant of retry_after: only a timed-out read_ack is retried
retry_only_timeout(err, start, now) == err = "TimedOut" /\ not_timeout(start, now)

\* `Err(e) => { not_timeout(start, e)?; continue; }`: whether the loop retries
retry_after(err, start, now) == not_timeout(start, now)

\* read_ack once the header is in: the `len` check, then CRC and error byte
\* when the ACK is complete, or a third read
ack_header(buff, size) ==
    LET len == buff[3]
    IN  IF len + 4 > BuffLen THEN [kind |-> "err", err |-> "InvalidData"]
        ELSE IF size < len + 4 THEN [kind |-> "more"]
        ELSE [kind |-> "check"]

\* read_ack: CRC over buff[..len + 3], the 0xff error byte, the payload
ack_check(buff) ==
    LET len == buff[3]
    IN  IF crc(SubSeq(buff, 1, len + 3)) # buff[len + 4]
        THEN [kind |-> "err", err |-> "InvalidData"]
        ELSE IF buff[2] = 255 THEN [kind |-> "err", err |-> "Other"]
        ELSE [kind |-> "ok", data |-> SubSeq(buff, 4, len + 3)]

\* read_ack after its first or second read of the header
ack_after_header(buff, size) ==
    LET h == ack_header(buff, size)
    IN  IF h.kind = "check" THEN ack_check(buff) ELSE h

(* Byte streams the port can deliver after a write, the ways a read can   *)
(* split them, and the time a read can take (inputs of the model).         *)
Replies == {<<>>,
            <<1, 7, 2, 0, 5, 1>>,
            <<1, 7, 2, 0, 5, 0>>,
            <<1, 255, 1, 3, 252>>,
            <<1, 7, 30>>,
            <<1, 3, 0, 2>>,
            <<1, 6, 20, 1, 2, 3, 4, 5, 6, 7, 8, 9, 10,
              11, 12, 13, 14, 15, 16, 17, 18, 19, 20, 7>>}
Chunks(p) == {0, 2, Len(p)} \cap (0..Len(p))
ReadDelays == {0, 480}

\* `buff: [u8; 24]` of the driver when a command starts: zeroed by new(), or as
\* the ACK of an earlier command left it
InitBuffs ==
    {[i \in 1..BuffLen |-> 0],
     read_into([i \in 1..BuffLen |-> 0], 0, <<1, 7, 2, 0, 5, 1>>)}

InitCmd ==
    /\ InitNet
    /\ hist = None
    /\ \E b \in InitBuffs :
         cmd = [pc |-> "write", start |-> 0, now |-> 0,
                buff |-> b, size |-> 0, pending |-> <<>>,
                writes |-> 0, fail |-> None, result |-> None,
                last_read |-> 0, att_reads |-> 0, chunks |-> <<>>, reply |-> <<>>]

\* what a port.read of the current read_ack did: it took d ms (summed over
\* the reads of this read_ack) and returned n bytes (-1: an I/O error)
read_noted(c, took, n, before) ==
    [c EXCEPT !.last_read = took, !.att_reads = before.att_reads + took,
              !.chunks = Append(before.chunks, n)]

\* the send-and-wait loop after read_ack returned r (at time now)
cmd_after_ack(c, r, buff, size, pending, now) ==
    IF r.kind = "ok"
    THEN [c EXCEPT !.pc = "done", !.result = r, !.buff = buff, !.size = size,
                   !.pending = pending, !.now = now]
    ELSE LET again == retry_after(r.err, c.start, now)
         IN  [c EXCEPT !.pc = IF again THEN "write" ELSE "done",
                       !.result = IF again THEN None ELSE r,
                       !.fail = [err |-> r.err, elapsed |-> now - c.start],
                       !.buff = buff, !.size = size, !.pending = pending, !.now = now]

\* `self.port.write(&cmd).await?`
CmdWrite(ok, reply) ==
    /\ cmd # None
    /\ cmd.pc = "write"
    /\ cmd.writes < MaxWrites
    /\ cmd' = IF ok
              THEN [cmd EXCEPT !.pc = "read1", !.writes = @ + 1, !.fail = None,
                               !.pending = reply, !.last_read = 0, !.att_reads = 0,
                               !.chunks = <<>>, !.reply = reply]
              ELSE [cmd EXCEPT !.pc = "done", !.fail = None,
                               !.result = [kind |-> "err", err |-> "Io"]]
    /\ UNCHANGED <<netvars, hist, devvars, broker>>

\* read_ack: sleep, first read into buff
CmdRead1(ok, k, d) ==
    /\ cmd # None
    /\ cmd.pc = "read1"
    /\ k \in Chunks(cmd.pending)
    /\ LET now == cmd.now + ACK_SLEEP_MS + d
           buff == read_into(cmd.buff, 0, SubSeq(cmd.pending, 1, k))
           rest == SubSeqFrom(cmd.pending, k + 1)
       IN  cmd' = read_noted(
                  IF ~ok
                  THEN cmd_after_ack(cmd, [kind |-> "err", err |-> "Io"],
                                     cmd.buff, 0, cmd.pending, now)
                  ELSE IF k < 3
                  THEN [cmd EXCEPT !.pc = "read2", !.buff = buff, !.size = k,
                                   !.pending = rest, !.now = now]
                  ELSE LET r == ack_after_header(buff, k)
                       IN  IF r.kind = "more"
                           THEN [cmd EXCEPT !.pc = "read3", !.buff = buff, !.size = k,
                                            !.pending = rest, !.now = now]
                           ELSE cmd_after_ack(cmd, r, buff, k, rest, now),
                  d, IF ok THEN k ELSE -1, cmd)
    /\ UNCHANGED <<netvars, hist, devvars, broker>>

\* read_ack: fewer than 3 bytes, second chance
CmdRead2(ok, k, d) ==
    /\ cmd # None
    /\ cmd.pc = "read2"
    /\ k \in Chunks(cmd.pending)
    /\ LET now == cmd.now + ACK_SLEEP_MS + d
           buff == read_into(cmd.buff, cmd.size, SubSeq(cmd.pending, 1, k))
           size == cmd.size + k
           rest == SubSeqFrom(cmd.pending, k + 1)
       IN  cmd' = read_noted(
                  IF ~ok
                  THEN cmd_after_ack(cmd, [kind |-> "err", err |-> "Io"],
                                     cmd.buff, cmd.size, cmd.pending, now)
                  ELSE IF size < 3
                  THEN cmd_after_ack(cmd, [kind |-> "err", err |-> "TimedOut"],
                                     buff, size, rest, now)
                  ELSE LET r == ack_after_header(buff, size)
                       IN  IF r.kind = "more"
                           THEN [cmd EXCEPT !.pc = "read3", !.buff = buff, !.size = size,
                                            !.pending = rest, !.now = now]
                           ELSE cmd_after_ack(cmd, r, buff, size, rest, now),
                  d, IF ok THEN k ELSE -1, cmd)
    /\ UNCHANGED <<netvars, hist, devvars, broker>>

\* read_ack: the ACK is not complete, second chance
CmdRead3(ok, k, d) ==
    /\ cmd # None
    /\ cmd.pc = "read3"
    /\ k \in Chunks(cmd.pending)
    /\ LET now == cmd.now + ACK_SLEEP_MS + d
           buff == read_into(cmd.buff, cmd.size, SubSeq(cmd.pending, 1, k))
           size == cmd.size + k
           rest == SubSeqFrom(cmd.pending, k + 1)
       IN  cmd' = read_noted(
                  IF ~ok
                  THEN cmd_after_ack(cmd, [kind |-> "err", err |-> "Io"],
                                     cmd.buff, cmd.size, cmd.pending, now)
                  ELSE IF size < buff[3]
                  THEN cmd_after_ack(cmd, [kind |-> "err", err |-> "TimedOut"],
                                     buff, size, rest, now)
                  ELSE cmd_after_ack(cmd, ack_check(buff), buff, size, rest, now),
                  d, IF ok THEN k ELSE -1, cmd)
    /\ UNCHANGED <<netvars, hist, devvars, broker>>

NextCmd ==
    \/ \E ok \in BOOLEAN, reply \in Replies : CmdWrite(ok, reply)
    \/ \E ok \in BOOLEAN, k \in 0..BuffLen, d \in ReadDelays : CmdRead1(ok, k, d)
    \/ \E ok \in BOOLEAN, k \in 0..BuffLen, d \in ReadDelays : CmdRead2(ok, k, d)
    \/ \E ok \in BOOLEAN, k \in 0..BuffLen, d \in ReadDelays : CmdRead3(ok, k, d)

SpecCmd == InitCmd /\ [][NextCmd]_vars

----------------------------------------------------------------------------
(* Properties of the send-and-wait loop (checked under SpecCmd).           *)

\* C9: after a failed read_ack the loop goes back to writing the command if
\* and only if at most TIMEOUT_MS elapsed since the command started;
\* otherwise the command ends with the error of that read_ack.
C9_RetryIffWithinBudget ==
    (cmd.fail # None) =>
        /\ cmd.fail.elapsed <= TIMEOUT_MS <=> cmd.pc = "write"
        /\ cmd.fail.elapsed > TIMEOUT_MS =>
              /\ cmd.pc = "done"
              /\ cmd.result = [kind |-> "err", err |-> cmd.fail.err]

\* C9 witness: a read_ack failed exactly TIMEOUT_MS after the start, and the
\* command (already written more than once) is about to be written again.
C9_Witness ==
    /\ cmd.fail # None
    /\ cmd.fail.elapsed = TIMEOUT_MS
    /\ cmd.pc = "write"
    /\ cmd.writes > 1

C11_WithinBudgetPlusOneSleep ==
    cmd.pc = "done" =>
        cmd.now - cmd.start - cmd.last_read <= TIMEOUT_MS + ACK_SLEEP_MS

\* C11 amended: every attempt takes at least one ACK_SLEEP_MS and starts at
\* most TIMEOUT_MS after the first one (so there are at most
\* TIMEOUT_MS / ACK_SLEEP_MS + 1 attempts), and a finished command took at
\* most TIMEOUT_MS + 3 * ACK_SLEEP_MS, the OS reads of its last attempt (up
\* to three) not counted.
C11_BoundedByBudgetPlusAttempt ==
    /\ cmd.pc = "write" =>
          /\ cmd.writes * ACK_SLEEP_MS <= cmd.now - cmd.start
          /\ cmd.now - cmd.start <= TIMEOUT_MS
    /\ cmd.pc = "done" =>
          cmd.now - cmd.start - cmd.att_reads <= TIMEOUT_MS + 3 * ACK_SLEEP_MS

\* C11 witness: the last attempt started exactly TIMEOUT_MS after the first
\* and went through all three sleeps of read_ack.
C11_Witness ==
    /\ cmd.pc = "done"
    /\ cmd.writes > 1
    /\ cmd.now - cmd.start - cmd.att_reads = TIMEOUT_MS + 3 * ACK_SLEEP_MS

\* a complete ACK of at most BuffLen bytes: [..][cmd][len][payload][crc],
\* not the dongle's error reply
WellFormedAck(r) ==
    /\ Len(r) >= 4
    /\ Len(r) <= BuffLen
    /\ r[3] = Len(r) - 4
    /\ r[Len(r)] = crc(SubSeq(r, 1, Len(r) - 1))
    /\ r[2] # 255

\* the first read of the current read_ack returned fewer than 3 bytes of a
\* well-formed ACK and the second read the remainder
SplitHeaderRead ==
    /\ WellFormedAck(cmd.reply)
    /\ Len(cmd.chunks) = 2
    /\ cmd.chunks[1] \in 0..2
    /\ cmd.chunks[1] + cmd.chunks[2] = Len(cmd.reply)

\* C12: when the first read of read_ack delivers fewer than 3 bytes of a
\* well-formed ACK and the second read the remainder, the command ends with
\* exactly the ACK's payload, without error and without another attempt.
C12_SplitHeaderAckRead ==
    SplitHeaderRead =>
        /\ cmd.pc = "done"
        /\ cmd.result = [kind |-> "ok",
                         data |-> SubSeq(cmd.reply, 4, Len(cmd.reply) - 1)]

\* C12 witness: a 24-byte ACK, 2 bytes in the first read, 22 in the second,
\* over a buffer that still holds another ACK from the attempt before.
C12_Witness ==
    /\ SplitHeaderRead
    /\ Len(cmd.reply) = BuffLen
    /\ cmd.chunks = <<2, 22>>
    /\ cmd.writes > 1
    /\ cmd.result.data[20] = 20

----------------------------------------------------------------------------
(* Dongle driver, pure parts (lora_usb.rs): crc over byte sequences built  *)
(* one byte at a time, and the frames the commands write. cmd is the call  *)
(* made on the new driver: its kind, its arguments and what it computed.   *)

CrcBytes == {0, 1, 170, 193, 255}

\* the frames written as literals
cmd00_frame == <<128, 0, 0, 128>>
cmd01_frame == <<193, 1, 0, 192>>
cmd02_frame == <<193, 2, 0, 195>>
cmd06_frame == <<193, 6, 0, 199>>
cmd07_frame == <<193, 7, 0, 198>>
fixed_frame(c) ==
    IF c = 0 THEN cmd00_frame ELSE IF c = 1 THEN cmd01_frame
    ELSE IF c = 2 THEN cmd02_frame ELSE IF c = 6 THEN cmd06_frame ELSE cmd07_frame

\* cmd03_set_values: `if mode > 3 { mode = 1; }` and so on
remap_mode(mode) == IF mode > 3 THEN 1 ELSE mode

\* mutant of remap_freq: the limits themselves are replaced too
remap_freq_exclusive(freq) == IF freq <= 86000 \/ freq >= 102000 THEN 91500 ELSE freq

remap_freq(freq) == IF freq < 86000 \/ freq > 102000 THEN 91500 ELSE freq
remap_power(power) == IF power > 15 THEN 0 ELSE power

\* cmd04_set_values: `if bw < 1 || bw > 3 { bw = 3; }` and so on
remap_bw(bw) == IF bw < 1 \/ bw > 3 THEN 3 ELSE bw
remap_cr(cr) == IF cr < 1 \/ cr > 4 THEN 1 ELSE cr
remap_sf(sf) == IF sf < 1 \/ sf > 7 THEN 3 ELSE sf

\* `cmd[n] = crc(&cmd)`: the crc of the whole array, slot n still 0
with_crc(cmd0, n) == [cmd0 EXCEPT ![n] = crc(cmd0)]

\* cmd03_set_values: the 9-byte frame
cmd03_frame(mode, freq, power) ==
    LET f == remap_freq(freq)
    IN  with_crc(<<193, 3, 5, remap_mode(mode),
                   (f \div 65536) % 256, (f \div 256) % 256, f % 256,
                   remap_power(power), 0>>, 9)

\* cmd04_set_values: the 7-byte frame
cmd04_frame(bw, cr, sf) ==
    with_crc(<<193, 4, 3, remap_bw(bw), remap_cr(cr), remap_sf(sf), 0>>, 7)

\* mutant of cmd05_frame: the crc taken before the payload is copied in
cmd05_frame_crc_early(d) ==
    LET len == Len(d)
        head == [i \in 1..20 |-> IF i = 1 THEN 193 ELSE IF i = 2 THEN 5
                                 ELSE IF i = 3 THEN len ELSE 0]
        full == [i \in 1..20 |-> IF i >= 4 /\ i <= len + 3 THEN d[i - 3]
                                 ELSE IF i = len + 4 THEN crc(head) ELSE head[i]]
    IN  SubSeq(full, 1, len + 4)

\* cmd05_write_data: the 20-byte array and the len + 4 bytes of it written
cmd05_frame(d) ==
    LET len == Len(d)
        cmd0 == [i \in 1..20 |-> IF i = 1 THEN 193 ELSE IF i = 2 THEN 5
                                 ELSE IF i = 3 THEN len
                                 ELSE IF i <= len + 3 THEN d[i - 3] ELSE 0]
    IN  SubSeq(with_crc(cmd0, len + 4), 1, len + 4)

(* Arguments the callers can pass (inputs of the model). *)
Modes == {0, 1, 2, 3, 4, 7, 255}
Freqs == {0, 50000, 85999, 86000, 91500, 102000, 102001, 16868716, 2147483647}
Powers == {0, 7, 15, 16, 99, 255}
Bws == {0, 1, 3, 4, 255}
Crs == {0, 1, 4, 5, 255}
Sfs == {0, 1, 7, 8, 255}
TxData == {[i \in 1..n |-> (i * 37) % 256] : n \in 0..17} \cup {<<255>>, <<0, 0>>}

TxNodeIds == {0, 42, 168496141, 2147483647}
\* replies to cmd00: payloads of every length up to 9, of firmware 3 to 9
Acks00 == {AckErr} \cup
          {AckOk([i \in 1..n |-> IF i = 2 THEN fw ELSE i + 7]) :
              n \in 0..9, fw \in {3, 7, 8, 9}}
TxPayloads == {[i \in 1..n |-> (i * 53 + 200) % 256] : n \in 0..9}
              \cup {<<0>>, <<255, 255, 255, 255, 255, 255, 255, 255>>}
RawFrames == {[i \in 1..n |-> (i * 29) % 128] : n \in 0..10}

\* the slice of buff the loop hands to cmd05_write_data for a downlink
\* received as `payload` for the node that sent `node_id`, or None when the
\* loop does not get to the write
tx_frame(node_id, payload) ==
    LET d == [data |-> hex_encode(payload)]
    IN  IF exceeds_limit(d) \/ ~hex_decode_ok(d.data) \/ ~tx_slice_in_range(d)
        THEN None
        ELSE SubSeq(tx_buff(d, node_id), 1, 8 + (Len(d.data) \div 2))

InitFn ==
    /\ InitNet
    /\ hist = None
    /\ cmd = [kind |-> "new"]

\* crc(&data) for empty data
FnCrcEmpty ==
    /\ cmd.kind = "new"
    /\ cmd' = [kind |-> "crc", data |-> <<>>, crc |-> crc(<<>>)]
    /\ UNCHANGED <<netvars, hist, devvars, broker>>

\* crc(&data) for a sequence one byte longer
FnCrc(d) ==
    /\ cmd.kind = "crc"
    /\ Len(cmd.data) < MaxCrcLen
    /\ cmd' = [kind |-> "crc", data |-> Append(cmd.data, d),
               crc |-> crc(Append(cmd.data, d))]
    /\ UNCHANGED <<netvars, hist, devvars, broker>>

\* cmd00, cmd01, cmd02, cmd06, cmd07 up to the first port.write
FnFixed(c) ==
    /\ cmd.kind = "new"
    /\ cmd' = [kind |-> "fixed", code |-> c, frame |-> fixed_frame(c)]
    /\ UNCHANGED <<netvars, hist, devvars, broker>>

\* cmd03_set_values up to the first port.write
FnSetValues(mode, freq, power) ==
    /\ cmd.kind = "new"
    /\ cmd' = [kind |-> "cmd03", mode |-> mode, freq |-> freq, power |-> power,
               frame |-> cmd03_frame(mode, freq, power)]
    /\ UNCHANGED <<netvars, hist, devvars, broker>>

\* cmd04_set_values up to the first port.write
FnSetLoraParams(bw, cr, sf) ==
    /\ cmd.kind = "new"
    /\ cmd' = [kind |-> "cmd04", bw |-> bw, cr |-> cr, sf |-> sf,
               frame |-> cmd04_frame(bw, cr, sf)]
    /\ UNCHANGED <<netvars, hist, devvars, broker>>

\* cmd05_write_data up to the first port.write, or its InvalidInput
FnWriteData(d) ==
    /\ cmd.kind = "new"
    /\ cmd' = IF Len(d) < 1 \/ Len(d) > 16
              THEN [kind |-> "cmd05", data |-> d, frame |-> None]
              ELSE [kind |-> "cmd05", data |-> d, frame |-> cmd05_frame(d)]
    /\ UNCHANGED <<netvars, hist, devvars, broker>>

\* on_dldata's hex::encode, the loop's TX buffer, and parse_rx_data of it
FnTxFrame(node_id, payload) ==
    /\ cmd.kind = "new"
    /\ LET buf == tx_frame(node_id, payload)
       IN  cmd' = [kind |-> "tx", node_id |-> node_id, payload |-> payload,
                   buf |-> buf,
                   parsed |-> IF buf = None THEN None ELSE parse_rx_data(buf)]
    /\ UNCHANGED <<netvars, hist, devvars, broker>>

\* parse_rx_data of a received frame
FnParse(raw) ==
    /\ cmd.kind = "new"
    /\ cmd' = [kind |-> "parse", raw |-> raw, parsed |-> parse_rx_data(raw)]
    /\ UNCHANGED <<netvars, hist, devvars, broker>>

\* cmd00_chip_info on the reply read_ack returned
FnChipInfo(ack) ==
    /\ cmd.kind = "new"
    /\ cmd' = [kind |-> "cmd00", ack |-> ack, res |-> cmd00_chip_info(ack)]
    /\ UNCHANGED <<netvars, hist, devvars, broker>>

NextFn ==
    \/ FnCrcEmpty
    \/ \E d \in CrcBytes : FnCrc(d)
    \/ \E c \in {0, 1, 2, 6, 7} : FnFixed(c)
    \/ \E mode \in Modes, freq \in Freqs, power \in Powers :
          FnSetValues(mode, freq, power)
    \/ \E bw \in Bws, cr \in Crs, sf \in Sfs : FnSetLoraParams(bw, cr, sf)
    \/ \E d \in TxData : FnWriteData(d)
    \/ \E node_id \in TxNodeIds, payload \in TxPayloads : FnTxFrame(node_id, payload)
    \/ \E raw \in RawFrames : FnParse(raw)
    \/ \E ack \in Acks00 : FnChipInfo(ack)

SpecFn == InitFn /\ [][NextFn]_vars

----------------------------------------------------------------------------
(* Properties of the driver's pure parts (checked under SpecFn).           *)

\* C13: for every byte sequence b, crc(b ++ [crc(b)]) = 0.
C13_CrcOfFrameWithCrcIsZero ==
    cmd.kind = "crc" => crc(Append(cmd.data, cmd.crc)) = 0

\* C13 witness: a sequence of several different bytes with a non-zero crc.
C13_Witness ==
    /\ cmd.kind = "crc"
    /\ cmd.data = <<193, 1, 170, 255>>
    /\ cmd.crc = 149

\* a frame [0xC1][code][len][payload of len bytes][crc]
FrameShape(f, code) ==
    /\ Len(f) >= 4
    /\ f[1] = 193
    /\ f[2] = code
    /\ f[3] = Len(f) - 4
    /\ f[Len(f)] = crc(SubSeq(f, 1, Len(f) - 1))

\* C14: every frame written is [0xC1][cmd][len][payload][crc] with crc the
\* XOR of all preceding bytes (chip_info: 80 00 00 80, whose last byte is
\* that XOR too); write_data carries its 1..16 bytes of payload unchanged.
C14_FramesWellFormed ==
    /\ cmd.kind = "fixed" =>
          IF cmd.code = 0
          THEN /\ cmd.frame = <<128, 0, 0, 128>>
               /\ cmd.frame[4] = crc(SubSeq(cmd.frame, 1, 3))
          ELSE FrameShape(cmd.frame, cmd.code) /\ Len(cmd.frame) = 4
    /\ cmd.kind = "cmd03" => FrameShape(cmd.frame, 3) /\ Len(cmd.frame) = 9
    /\ cmd.kind = "cmd04" => FrameShape(cmd.frame, 4) /\ Len(cmd.frame) = 7
    /\ (cmd.kind = "cmd05" /\ Len(cmd.data) \in 1..16) =>
          /\ cmd.frame # None
          /\ FrameShape(cmd.frame, 5)
          /\ SubSeq(cmd.frame, 4, Len(cmd.frame) - 1) = cmd.data

\* C14 witness: write_data of 16 bytes, a 20-byte frame.
C14_Witness ==
    /\ cmd.kind = "cmd05"
    /\ Len(cmd.data) = 16
    /\ Len(cmd.frame) = 20
    /\ cmd.frame[20] # 0

\* C15: set_values writes mode, freq and power, and set_lora_params bw, cr
\* and sf, unchanged when in range and replaced by 1 / 91500 / 0 and
\* 3 / 1 / 3 when out of range; no argument is rejected.
C15_OutOfRangeRemapped ==
    /\ cmd.kind = "cmd03" =>
          /\ cmd.frame[4] = (IF cmd.mode > 3 THEN 1 ELSE cmd.mode)
          /\ cmd.frame[5] * 65536 + cmd.frame[6] * 256 + cmd.frame[7]
                = (IF cmd.freq \in 86000..102000 THEN cmd.freq ELSE 91500)
          /\ cmd.frame[8] = (IF cmd.power > 15 THEN 0 ELSE cmd.power)
    /\ cmd.kind = "cmd04" =>
          /\ cmd.frame[4] = (IF cmd.bw \in 1..3 THEN cmd.bw ELSE 3)
          /\ cmd.frame[5] = (IF cmd.cr \in 1..4 THEN cmd.cr ELSE 1)
          /\ cmd.frame[6] = (IF cmd.sf \in 1..7 THEN cmd.sf ELSE 3)

\* C15 witness: set_values(7, 50000, 99) writes (1, 91500, 0).
C15_Witness ==
    /\ cmd.kind = "cmd03"
    /\ cmd.mode = 7 /\ cmd.freq = 50000 /\ cmd.power = 99
    /\ SubSeq(cmd.frame, 4, 8) = <<1, 1, 101, 108, 0>>

\* C16: parse_rx_data of the TX buffer the loop builds for a downlink gives
\* back the node id and the payload the broker delivered, for every payload
\* the loop transmits (up to 8 bytes); parse_rx_data fails exactly on frames
\* shorter than 8 bytes.
C16_FrameRoundTrip ==
    /\ (cmd.kind = "tx" /\ Len(cmd.payload) <= 8) =>
          /\ cmd.buf = u32_to_be_bytes(cmd.node_id) \o <<0, 0, 0, 0>> \o cmd.payload
          /\ cmd.parsed = [kind |-> "ok", node_id |-> cmd.node_id,
                           payload |-> cmd.payload]
    /\ cmd.kind = "parse" => (cmd.parsed.kind = "err" <=> Len(cmd.raw) < 8)

\* C16 witness: an 8-byte payload for node 0x0a0b0c0d, a 16-byte frame.
C16_Witness ==
    /\ cmd.kind = "tx"
    /\ cmd.node_id = 168496141
    /\ Len(cmd.payload) = 8
    /\ cmd.payload[1] = 253
    /\ Len(cmd.buf) = 16
    /\ cmd.parsed.kind = "ok"

\* cmd00_chip_info returned Ok for a reply of `len` payload bytes
ChipInfoOk == cmd.kind = "cmd00" /\ cmd.res.kind = "ok"
\* the big-endian u32 of payload bytes 2..6 of the reply
ChipNodeId ==
    LET p == cmd.ack.data
    IN  ((p[3] * 256 + p[4]) * 256 + p[5]) * 256 + p[6]

\* C29 as claimed: chip_info decodes the node id exactly when the `len` of
\* the ACK (the number of its payload bytes) is at least 8 and the payload
\* has at least 6 bytes; otherwise node_id is 0.
C29_NodeIdWhenLenAtLeast8 ==
    ChipInfoOk =>
       cmd.res.node_id = IF Len(cmd.ack.data) >= 8 /\ Len(cmd.ack.data) >= 6
                         THEN ChipNodeId ELSE 0

\* C29 amended: chip_info decodes the node id as the big-endian u32 of
\* payload bytes 2..6 exactly when payload byte 1, the firmware version it
\* reports, is at least 8 and the payload has at least 6 bytes; in every
\* other successful case node_id is 0.
C29_NodeIdWhenFirmwareAtLeast8 ==
    ChipInfoOk =>
       /\ cmd.res.fw_ver = cmd.ack.data[2]
       /\ cmd.res.node_id = IF cmd.ack.data[2] >= 8 /\ Len(cmd.ack.data) >= 6
                            THEN ChipNodeId ELSE 0

\* C29 witness: a reply of 6 payload bytes from firmware 9 gave the node id
\* 0x0a0b0c0d, and one of 8 bytes from firmware 7 would give 0.
C29_Witness ==
    /\ ChipInfoOk
    /\ Len(cmd.ack.data) = 6
    /\ cmd.res.fw_ver = 9
    /\ cmd.res.node_id = 168496141
    /\ cmd00_chip_info(AckOk(<<8, 7, 10, 11, 12, 13, 14, 15>>)).node_id = 0

----------------------------------------------------------------------------
(* Properties of the network bridge (checked under Spec).                  *)

ForAddr(seq, a) == SelectSeq(seq, LAMBDA r : r.network_addr = a)
QueueOf(a) == IF a \in DOMAIN queue_dldata THEN queue_dldata[a] ELSE <<>>
OpIdx(o) == {i \in 1..Len(ops) : ops[i].op = o}
SetModeIdx(m) == {i \in OpIdx("cmd03") : ops[i].mode = m}
\* ops belongs to a tick of the main loop (it starts with the tick's poll)
InTick == ops # <<>> /\ ops[1].op = "cmd07"
\* the loop is between ticks, or its task is gone
TickOver == pc \in {"poll", "aborted"}

\* C3: for every address the downlinks on_dldata appended are, in append
\* order, exactly those the loop popped (in pop order) followed by those
\* still queued: pops are FIFO, nothing is lost, nothing is duplicated.
C3_FifoPerAddr ==
    \A a \in BrokerAddrs : ForAddr(accepted, a) = ForAddr(popped, a) \o QueueOf(a)

\* C3 witness: a later downlink for the same address is appended (its
\* callback still running) while the loop is busy with the one it popped.
C3_Witness ==
    /\ pc = "set_tx"
    /\ InOnDlData
    /\ cb.result.data_id = 2
    /\ data.data_id = 1
    /\ QueueOf(data.network_addr) # <<>>

\* C4: when a tick is over, every set_values(TX) issued in it was followed
\* by a set_values(RX) in the same tick.
C4_TxFollowedByRx ==
    (InTick /\ TickOver) =>
        \A i \in SetModeIdx(2) : \E j \in SetModeIdx(3) : j > i

\* C5: in a tick that popped a downlink whose hex payload is longer than 16
\* characters, no set_values(TX) and no write_data is issued, and once the
\* loop is past the send exactly one send_dldata_result{status 1} was made.
C5_OversizeNoTx ==
    (InTick /\ \E i \in OpIdx("pop") : exceeds_limit(accepted[ops[i].data_id])) =>
        /\ SetModeIdx(2) = {}
        /\ OpIdx("cmd05") = {}
        /\ pc # "send_result" =>
              \E i \in OpIdx("send_dldata_result") :
                  /\ OpIdx("send_dldata_result") = {i}
                  /\ ops[i].status = 1
                  /\ ops[i].message = "exceed 16-byte hexadecimal"
                  /\ \E k \in OpIdx("pop") : ops[k].data_id = ops[i].data_id

\* C6: the event-loop task never terminates.
C6_LoopNeverAborts == pc # "aborted"

\* the set_values(RX) that follows a successful write_data failed
PostTxRestoreFailed ==
    \E i \in SetModeIdx(3) :
        /\ ops[i].res = "err"
        /\ \E j \in OpIdx("cmd05") : j < i /\ ops[j].res = "ok"

\* C7: once the tick of a failed post-TX set_values(RX) restore is over the
\* loop is back at opening the port; a tick without such a failure never
\* leads back into the connect sequence.
C7_RestoreFailReconnects ==
    /\ (InTick /\ TickOver /\ PostTxRestoreFailed) => pc = "open"
    /\ (InTick /\ ~PostTxRestoreFailed) =>
           pc \notin {"open", "conn_set_rx", "conn_counter"}

\* C17: the uplink built from a read_data ACK payload P (10 bytes or more)
\* is pushed to the uplink history, and offered to the broker, with
\* network_addr = the 8 lowercase hex digits of the big-endian u32 P[0..4],
\* data = the hex of P[8..|P|-2] and rssi = the big-endian i16 of the last
\* two bytes of P.
C17_UplinkFromAck ==
    rx # None =>
        LET P == rx.ack
            n == Len(P)
            v == P[n - 1] * 256 + P[n]
            u == latest_uldata[Len(latest_uldata)]
            ul == [network_addr |-> format_addr(((P[1] * 256 + P[2]) * 256 + P[3]) * 256 + P[4]),
                   data |-> hex_encode(SubSeq(P, 9, n - 2)),
                   rssi |-> IF v >= 32768 THEN v - 65536 ELSE v]
            fields(r) == [network_addr |-> r.network_addr, data |-> r.data,
                          rssi |-> r.rssi]
        IN  /\ n >= 10
            /\ latest_uldata # <<>>
            /\ fields(u) = ul
            /\ pc # "send_uldata" =>
                  /\ OpIdx("send_uldata") # {}
                  /\ \A i \in OpIdx("send_uldata") : fields(ops[i]) = ul

\* C17 witness: the ACK payload 00 00 00 2A 00 00 00 00 DE AD FF F0 became
\* the uplink 0000002a / dead / -16, in the history and on the broker queue.
C17_Witness ==
    /\ rx # None
    /\ rx.ack = <<0, 0, 0, 42, 0, 0, 0, 0, 222, 173, 255, 240>>
    /\ pc = "pop"
    /\ LET u == latest_uldata[Len(latest_uldata)]
       IN  /\ u.network_addr = <<"0", "0", "0", "0", "0", "0", "2", "a">>
           /\ u.data = <<"d", "e", "a", "d">>
           /\ u.rssi = -16
    /\ \E i \in OpIdx("send_uldata") : ops[i].ok /\ ops[i].rssi = -16

\* C18: while the status -1 result of a downlink appended by on_dldata is
\* still to be sent, the event loop does not poll read_counter (and so
\* cannot pop or transmit that downlink, nor send its status 1 result).
C18_ResultBeforeNextPoll ==
    [][InOnDlData => ~(\E ack \in Acks07 : LoopPoll(ack))]_vars

\* the hex string on_dldata queued for the downlink the loop answered in ops[i]
ResultHex(i) == accepted[ops[i].data_id].data

\* C19 as claimed: the loop sends a status 1 result only for a downlink
\* whose payload exceeds 16 bytes (a hex string of more than 32 characters).
C19_RejectsOnlyOver16Bytes ==
    /\ \A i \in OpIdx("send_dldata_result") : Len(ResultHex(i)) > 32
    /\ pc = "send_result" => Len(data.data) > 32

\* C19 amended: the limit is 16 hexadecimal characters, 8 bytes of payload;
\* a popped downlink of at most 16 characters is never answered with
\* status 1, the loop goes on to transmit it.
C19_RejectsOnlyOver16HexChars ==
    /\ \A i \in OpIdx("send_dldata_result") : Len(ResultHex(i)) > 16
    /\ pc = "send_result" => Len(data.data) > 16
    /\ (data # None /\ Len(data.data) <= 16) =>
          /\ pc \in {"set_tx", "write_data", "restore_rx", "restore_rx_err"}
          /\ OpIdx("send_dldata_result") = {}

\* C19 witness: a downlink of exactly 16 hex characters was popped and
\* written to the dongle as 8 + 8 bytes.
C19_Witness ==
    /\ data # None
    /\ Len(data.data) = 16
    /\ pc = "restore_rx"
    /\ \E i \in OpIdx("cmd05") : ops[i].res = "ok" /\ Len(ops[i].data) = 16

\* C20: read_counter gives its caller a counter value or an error, whatever
\* the length of the payload of the CRC-valid ACK; it never aborts the task.
C20_ReadCounterValueOrError ==
    \A i \in OpIdx("cmd07") : ops[i].res.kind \in {"ok", "err"}

\* C8: in a tick of the main loop read_data is issued at most once, and if
\* and only if read_counter succeeded with a value different from the stored
\* counter; after a successful read_counter the stored counter is that value.
C8_ReadDataIffCounterChanged ==
    InTick =>
        LET p == ops[1]
            changed == p.res.kind = "ok" /\ p.res.value # p.old
        IN  /\ Cardinality(OpIdx("cmd06")) <= 1
            /\ OpIdx("cmd06") # {} => changed
            /\ changed => (OpIdx("cmd06") # {} \/ pc = "read_data")
            /\ p.res.kind = "ok" => counter = p.res.value
            /\ p.res.kind = "err" => counter = p.old

\* C8 witness: the counter wrapped from 65535 to 0 and read_data was issued.
C8_Witness ==
    /\ InTick
    /\ ops[1].old = 65535
    /\ ops[1].res.kind = "ok"
    /\ ops[1].res.value = 0
    /\ OpIdx("cmd06") # {}

\* the uplink history is in push order (uplinks are numbered as they are pushed)
UlHistoryInPushOrder ==
    \A i \in 1..Len(latest_uldata) : \A j \in 1..Len(latest_uldata) :
        i < j => latest_uldata[i].time < latest_uldata[j].time

\* the loop's send_uldata of uplink number k returned Ok in this tick
Delivered(k) == \E i \in OpIdx("send_uldata") : ops[i].ok /\ ops[i].time = k

\* C23: uplinks are numbered as they are pushed to the uplink history. The
\* loop gets to a send_uldata call only by pushing a new uplink, the call
\* sends that uplink, which is then the newest record of the history, and
\* the numbers never go back: successful deliveries happen in push order,
\* which is the order of the history.
C23_UplinksDeliveredInOrder ==
    [][/\ n_ul' >= n_ul
       /\ UlHistoryInPushOrder'
       /\ (pc # "send_uldata" /\ pc' = "send_uldata") =>
             /\ n_ul' = n_ul + 1
             /\ latest_uldata'[Len(latest_uldata')].time = n_ul'
             /\ \A i \in 1..Len(ops') : ops'[i].op # "send_uldata"
       /\ (pc = "send_uldata" /\ pc' = "send_uldata") =>
             /\ n_ul' = n_ul /\ latest_uldata' = latest_uldata /\ ops' = ops
       /\ (pc = "send_uldata" /\ pc' # "send_uldata") =>
             LET u == latest_uldata[Len(latest_uldata)]
                 e == ops'[Len(ops')]
             IN  /\ ops' = Append(ops, e)
                 /\ e.op = "send_uldata"
                 /\ e.time = n_ul /\ u.time = n_ul
                 /\ e.network_addr = u.network_addr /\ e.data = u.data
                 /\ e.rssi = u.rssi
                 /\ n_ul' = n_ul
                 /\ latest_uldata' = latest_uldata
                 /\ pc' = IF e.ok THEN "pop" ELSE "poll"]_vars

\* C23 witness: the second uplink was delivered while the first one is
\* still in the history, before it.
C23_Witness ==
    /\ Delivered(2)
    /\ Len(latest_uldata) = 2
    /\ latest_uldata[1].time = 1
    /\ latest_uldata[1].network_addr # latest_uldata[2].network_addr

\* what a tick's record of operations says about its pop: at most one, after
\* a read_data that gave a frame and a send_uldata that returned Ok, from
\* the queue of the address that uplink was sent with; and nothing at all
\* after a send_uldata that failed
TickPops ==
    InTick =>
        /\ Cardinality(OpIdx("pop")) <= 1
        /\ Cardinality(OpIdx("send_uldata")) <= 1
        /\ \A k \in OpIdx("pop") :
              \E i \in OpIdx("cmd06") : \E j \in OpIdx("send_uldata") :
                  /\ i < j /\ j < k
                  /\ ops[i].res = "some"
                  /\ ops[j].ok
                  /\ accepted[ops[k].data_id].network_addr = ops[j].network_addr
        /\ \A j \in OpIdx("send_uldata") :
              ~ops[j].ok =>
                  /\ j = Len(ops)
                  /\ pc = "poll"
                  /\ OpIdx("pop") = {} /\ OpIdx("cmd03") = {} /\ OpIdx("cmd05") = {}

\* C24: a downlink leaves a pending queue only by the loop's pop, which
\* comes right after a successful send_uldata of a frame from node N and
\* takes the head of the queue keyed by the 8 lowercase hex digits of N,
\* every other queue untouched; a tick pops at most once, and a tick whose
\* send_uldata failed ends there: no pop, no set_values, no write_data.
C24_PopOnlyAfterDeliveredUplink ==
    [][/\ TickPops'
       /\ (popped = popped' /\ queue_dldata # queue_dldata') =>
             \A a \in DOMAIN queue_dldata :
                 /\ a \in DOMAIN queue_dldata'
                 /\ Len(queue_dldata'[a]) >= Len(queue_dldata[a])
       /\ popped # popped' =>
             LET a == format_addr(rx.node_id)
                 d == popped'[Len(popped')]
                 j == Len(ops)
             IN  /\ pc = "pop"
                 /\ ops[j].op = "send_uldata" /\ ops[j].ok
                 /\ ops[j].network_addr = a
                 /\ \A i \in 1..8 : a[i] \in {"0", "1", "2", "3", "4", "5", "6", "7",
                                             "8", "9", "a", "b", "c", "d", "e", "f"}
                 /\ popped' = Append(popped, d)
                 /\ a \in DOMAIN queue_dldata
                 /\ queue_dldata[a] # <<>>
                 /\ d = Head(queue_dldata[a])
                 /\ queue_dldata' = [queue_dldata EXCEPT ![a] = Tail(@)]]_vars

\* C24 witness: two downlinks wait for node 0000002a, a frame of that node
\* was delivered and the first of the two was popped; the loop is at the write.
C24_Witness ==
    /\ pc = "write_data"
    /\ rx.node_id = 42
    /\ OpIdx("pop") # {}
    /\ data.data_id = 1
    /\ Len(QueueOf(format_addr(42))) = 1
    /\ QueueOf(format_addr(42))[1].data_id = 2

\* read_counter returned an error, or the value the loop already has
PollQuietCase(ack) ==
    LET r == cmd07_read_data_counter(ack)
    IN  r.kind = "err" \/ (r.kind = "ok" /\ r.value = counter)

\* read_data returned an error or no frame, or a frame shorter than 8 bytes
ReadQuietCase(ack) ==
    LET r == cmd06_read_data(ack)
    IN  r.kind \in {"err", "none"} \/ (r.kind = "some" /\ Len(r.data) < 8)

\* the step ends the tick and leaves the histories and the pending queues as
\* they were; the tick has seen nothing but read_counter and read_data
QuietStep ==
    /\ latest_uldata' = latest_uldata
    /\ latest_dldata' = latest_dldata
    /\ queue_dldata' = queue_dldata
    /\ popped' = popped
    /\ n_ul' = n_ul
    /\ \A i \in 1..Len(ops') : ops'[i].op \in {"cmd07", "cmd06"}
    /\ pc' = "poll"

\* C25: in the main loop, a read_counter that fails or returns the stored
\* counter, and a read_data that fails, returns no frame or returns a frame
\* shorter than 8 bytes, end the tick: the histories and the pending queues
\* are as before, nothing was sent to the broker, no set_values and no
\* write_data was issued, and the loop goes on with the next tick's sleep
\* and read_counter on the same port.
C25_FailedReadsEndTheTick ==
    [][/\ \A ack \in Acks07 : (LoopPoll(ack) /\ PollQuietCase(ack)) => QuietStep
       /\ \A ack \in Acks06 : (LoopReadData(ack) /\ ReadQuietCase(ack)) => QuietStep]_vars

\* C25 witness: with an uplink in the history and a downlink pending, the
\* counter changed and read_data gave a frame that parse_rx_data refused;
\* the loop is back at the poll.
C25_Witness ==
    /\ pc = "poll"
    /\ Len(ops) = 2
    /\ ops[1].op = "cmd07" /\ ops[1].res.kind = "ok" /\ ops[1].res.value # ops[1].old
    /\ ops[2].op = "cmd06" /\ ops[2].res = "some"
    /\ Len(latest_uldata) = 1
    /\ QueueOf(format_addr(42)) # <<>>

\* the record as on_dldata queued it and the loop popped it
Unsent(r) == [r EXCEPT !.sent = ""]

\* every record of the downlink history was popped and carries a sent
\* time; every record still pending, or popped and not yet sent, carries none
SentOnlyInHistory ==
    /\ \A i \in 1..Len(latest_dldata) :
          /\ latest_dldata[i].sent # ""
          /\ \E k \in 1..Len(popped) : popped[k] = Unsent(latest_dldata[i])
    /\ \A a \in DOMAIN queue_dldata : \A i \in 1..Len(queue_dldata[a]) :
          queue_dldata[a][i].sent = ""
    /\ data # None => data.sent = ""

\* C26: a record enters the downlink history only at the end of a tick that
\* popped it from a pending queue and in which set_values(TX) and then
\* write_data succeeded; it is the popped record with `sent` stamped in that
\* step, after the write_data; records in a pending queue have an empty sent.
C26_HistoryHoldsTransmitted ==
    [][/\ SentOnlyInHistory'
       /\ latest_dldata' # latest_dldata =>
             LET r == latest_dldata'[Len(latest_dldata')]
             IN  /\ latest_dldata' = Append(latest_dldata, r)
                 /\ data # None
                 /\ r = [data EXCEPT !.sent = "t"]
                 /\ data.sent = ""
                 /\ \E k \in OpIdx("pop") : \E i \in SetModeIdx(2) : \E j \in OpIdx("cmd05") :
                       /\ k < i /\ i < j /\ j = Len(ops)
                       /\ ops[k].data_id = r.data_id
                       /\ ops[i].res = "ok"
                       /\ ops[j].res = "ok"
                       /\ OpIdx("cmd05") = {j}]_vars

\* C26 witness: the first downlink was transmitted and is in the history
\* with its sent time (the restore of RX after it failed), the second one
\* is still pending.
C26_Witness ==
    /\ Len(latest_dldata) = 1
    /\ latest_dldata[1].data_id = 1
    /\ latest_dldata[1].sent = "t"
    /\ pc = "poll"
    /\ ops[Len(ops)].op = "cmd03" /\ ops[Len(ops)].res = "err"
    /\ \E a \in DOMAIN queue_dldata :
          queue_dldata[a] # <<>> /\ queue_dldata[a][1].data_id = 2

\* what the loop did on the port it is connecting, in order
ConnectOps(n) ==
    /\ Len(ops) = n
    /\ n >= 2 /\ ops[1] = [op |-> "sleep", ms |-> 100]
               /\ ops[2].op = "new" /\ (ops[2].ok <=> pc # "open")
    /\ n >= 3 => ops[3] = [op |-> "cmd03", mode |-> 3, res |-> "ok"]
    /\ n >= 4 => ops[4].op = "cmd07" /\ ops[4].res.kind = "ok"

\* the main loop
Running == pc \notin {"open", "conn_set_rx", "conn_counter", "aborted"}

\* C27: the loop gets into the main loop only from a read_counter that
\* succeeded after a set_values(RX) that succeeded on a port opened after a
\* 100 ms sleep, nothing else having been done on that port, and it starts
\* there with the counter that read_counter returned; an open, set_values or
\* read_counter that returns an error leads back to the sleep and the open.
C27_ConnectThenRunning ==
    [][/\ (pc # "conn_set_rx" /\ pc' = "conn_set_rx") =>
             (pc = "open" /\ ConnectOps(2)')
       /\ (pc # "conn_counter" /\ pc' = "conn_counter") =>
             (pc = "conn_set_rx" /\ ConnectOps(3)' /\ SubSeq(ops', 1, 2) = ops)
       /\ (~Running /\ Running') =>
             /\ pc = "conn_counter" /\ pc' = "poll"
             /\ ConnectOps(4)'
             /\ counter' = ops'[4].res.value
             /\ SubSeq(ops', 1, 3) = ops
       /\ \A ok \in BOOLEAN :
             LoopOpen(ok) => (ConnectOps(2)' /\ pc' = IF ok THEN "conn_set_rx" ELSE "open")
       /\ (pc = "conn_set_rx" /\ pc' # "conn_counter") =>
             /\ pc' \in {"conn_set_rx", "open"}
             /\ pc' = "open" => ops'[Len(ops')].res = "err"
       /\ \A ack \in Acks07 :
             (LoopConnCounter(ack) /\ cmd07_read_data_counter(ack).kind = "err") =>
                 pc' = "open"]_vars

\* C27 witness: a connect that failed at read_counter, then a second one
\* that succeeded with counter 65535: the loop is at its first poll.
C27_Witness ==
    /\ pc = "poll"
    /\ ConnectOps(4)
    /\ counter = 65535
    /\ ops[4].res.value = 65535

\* C28: on_dldata puts the downlink at the tail of the queue of its
\* network_addr, a queue it creates when the map has none, and changes no
\* other queue; after that it sends the result {data_id, status -1} for that
\* downlink, and whether the send succeeds or fails it returns Ok with every
\* queue as it was.
C28_OnDlDataQueuesThenReports ==
    [][/\ \A addr \in BrokerAddrs : \A payload \in DlPayloads :
             OnDlData(addr, payload) =>
                LET rec == accepted'[Len(accepted')]
                IN  /\ rec.network_addr = addr
                    /\ rec.data = hex_encode(payload)
                    /\ rec.sent = ""
                    /\ DOMAIN queue_dldata' = DOMAIN queue_dldata \cup {addr}
                    /\ queue_dldata'[addr] = Append(QueueOf(addr), rec)
                    /\ \A a \in DOMAIN queue_dldata \ {addr} :
                          queue_dldata'[a] = queue_dldata[a]
                    /\ cb' = [at |-> "send",
                              result |-> [data_id |-> rec.data_id, status |-> -1]]
       /\ \A ok \in BOOLEAN :
             OnDlDataResult(ok) =>
                /\ cb.at = "send"
                /\ accepted[Len(accepted)].data_id = cb.result.data_id
                /\ cb' = [at |-> "returned", ret |-> "Ok"]
                /\ queue_dldata' = queue_dldata]_vars

\* C28 witness: the callback has returned from its second call, made for an
\* address that had no queue; the first downlink is still at the head of
\* the other queue and the second is alone in the new one.
C28_Witness ==
    /\ cb # None /\ cb.at = "returned" /\ cb.ret = "Ok"
    /\ n_dl = 2
    /\ DOMAIN queue_dldata = BrokerAddrs
    /\ \A a \in BrokerAddrs : Len(queue_dldata[a]) = 1
    /\ queue_dldata[format_addr(42)][1].data_id = 1
    /\ queue_dldata[format_addr(168496141)][1].data_id = 2

----------------------------------------------------------------------------
(* The mutexes of the two bridges and the tasks that take them: the event  *)
(* loop, the broker callbacks and the HTTP handlers, each as the sequence  *)
(* of its lock, unlock, guarded operation and suspension points. A record  *)
(* of a buffer is represented by its insertion number. In hist: mutex[m]   *)
(* is the holder of mutex m, at[t] the program, position and locals of     *)
(* task t (None: idle), ins[m] the inserts made into buffer m, base the    *)
(* records both histories held at the start.                               *)

Mutexes == {"ul", "dl", "queue", "mgr"}
Buffer(m) == IF m = "ul" THEN latest_uldata ELSE latest_dldata
LockTasks(b) == IF b = "net" THEN {"loop", "callback", "http"}
                ELSE {"handler", "http", "http2"}
AllLockTasks == {"loop", "callback", "handler", "http", "http2"}

\* one step of a task: what it does, on which mutex, where it goes on
\* success and where on failure (`continue`, an early return)
I(ins, m, ok, err) == [ins |-> ins, m |-> m, ok |-> ok, err |-> err]

\* lora_task.rs create_event_loop
event_loop ==
    <<I("await", "", 2, 1),          \* 1: 101-108 sleep, IfroglabLora::new
      I("await", "", 3, 1),          \* 2: 109-115 cmd03_set_values(3)
      I("await", "", 4, 1),          \* 3: 116-123 cmd07_read_data_counter
      I("await", "", 5, 5),          \* 4: 128 sleep
      I("await", "", 6, 4),          \* 5: 129-138 cmd07_read_data_counter
      I("await", "ul", 7, 4),        \* 6: 139-157 cmd06_read_data, parse_rx_data
      I("lock", "ul", 8, 8),         \* 7: 176
      I("push_back", "ul", 9, 9),    \* 8: 177
      I("trim", "ul", 10, 10),       \* 9: 178-180
      I("unlock", "ul", 11, 11),     \* 10: 181
      I("lock", "mgr", 12, 12),      \* 11: 183
      I("send", "mgr", 13, 13),      \* 12: 183 send_uldata
      I("unlock", "mgr", 14, 4),     \* 13: 184-187
      I("lock", "queue", 15, 15),    \* 14: 191
      I("pop_front", "queue", 16, 16), \* 15: 192-198
      I("unlock", "queue", 17, 4),   \* 16: 199
      I("choice", "", 18, 21),       \* 17: 202 data_len > 16
      I("lock", "mgr", 19, 19),      \* 18: 209-213
      I("send", "mgr", 20, 20),      \* 19: 214 send_dldata_result
      I("unlock", "mgr", 22, 4),     \* 20: 215-219
      I("choice", "", 22, 4),        \* 21: 220-230 hex::decode_to_slice
      I("await", "", 23, 24),        \* 22: 232-236 cmd03_set_values(2)
      I("await", "", 25, 24),        \* 23: 245-246 cmd05_write_data
      I("await", "", 4, 4),          \* 24: 237-243, 247-253 cmd03_set_values(3)
      I("await", "", 26, 26),        \* 25: 255-261 cmd03_set_values(3)
      I("lock", "dl", 27, 27),       \* 26: 263
      I("push_back", "dl", 28, 28),  \* 27: 264
      I("trim", "dl", 29, 29),       \* 28: 265-267
      I("unlock", "dl", 4, 4)>>      \* 29: 268

\* lora-ifroglab data_handler.rs on_dldata
on_dldata ==
    <<I("lock", "queue", 2, 2),      \* 1: 55
      I("insert_key", "queue", 3, 3), \* 2: 56-58
      I("push_back", "queue", 4, 4), \* 3: 59
      I("unlock", "queue", 5, 5),    \* 4: 60
      I("send", "", 6, 6),           \* 5: 68-70 mgr.send_dldata_result
      I("return", "", 0, 0)>>        \* 6: 72

\* get_uldata, get_dldata (both bridges) and get_queue: lock, clone, drop
get_uldata ==
    <<I("lock", "ul", 2, 2), I("clone", "ul", 3, 3), I("unlock", "ul", 4, 4),
      I("return", "", 0, 0)>>
get_dldata ==
    <<I("lock", "dl", 2, 2), I("clone", "dl", 3, 3), I("unlock", "dl", 4, 4),
      I("return", "", 0, 0)>>
get_queue ==
    <<I("lock", "queue", 2, 2), I("clone", "queue", 3, 3), I("unlock", "queue", 4, 4),
      I("return", "", 0, 0)>>

\* app-demo data_handler.rs on_uldata
on_uldata ==
    <<I("lock", "ul", 2, 2),         \* 1: 69
      I("push_back", "ul", 3, 3),    \* 2: 70
      I("trim", "ul", 4, 4),         \* 3: 71-73
      I("unlock", "ul", 5, 5),       \* 4: 74
      I("return", "", 0, 0)>>        \* 5: 75

\* app-demo data_handler.rs on_dldata_resp and on_dldata_result
on_dldata_resp ==
    <<I("lock", "dl", 2, 2),         \* 1: 92, 123
      I("update", "dl", 3, 3),       \* 2: 93-101, 124-133
      I("unlock", "dl", 4, 4),       \* 3: 102, 134
      I("return", "", 0, 0)>>        \* 4: 109, 138

\* app-demo routes/v1/data.rs post_dldata
post_dldata ==
    <<I("choice", "", 2, 9),         \* 1: 89-97 hex::decode
      I("lock", "dl", 3, 3),         \* 2: 102
      I("push_back", "dl", 4, 4),    \* 3: 103
      I("trim", "dl", 5, 5),         \* 4: 104-106
      I("unlock", "dl", 6, 6),       \* 5: 107
      I("lock", "mgr", 7, 7),        \* 6: 110
      I("send", "mgr", 8, 8),        \* 7: 110 send_dldata
      I("unlock", "mgr", 9, 9),      \* 8: 111-117
      I("return", "", 0, 0)>>        \* 9: 118 (or the early returns)

Program(name) ==
    IF name = "event_loop" THEN event_loop
    ELSE IF name = "on_dldata" THEN on_dldata
    ELSE IF name = "get_uldata" THEN get_uldata
    ELSE IF name = "get_dldata" THEN get_dldata
    ELSE IF name = "get_queue" THEN get_queue
    ELSE IF name = "on_uldata" THEN on_uldata
    ELSE IF name = "on_dldata_resp" THEN on_dldata_resp
    ELSE post_dldata

\* what each task of a bridge can be asked to run
Programs(b, t) ==
    IF b = "net"
    THEN IF t = "callback" THEN {"on_dldata"}
         ELSE IF t = "http" THEN {"get_uldata", "get_dldata", "get_queue"}
         ELSE {}
    ELSE IF t = "handler" THEN {"on_uldata", "on_dldata_resp"}
         ELSE IF t \in {"http", "http2"} THEN {"get_uldata", "get_dldata", "post_dldata"}
         ELSE {}

\* the buffer a program pushes into, "" when it pushes nothing
Pushes(name) ==
    IF name = "on_dldata" THEN "queue"
    ELSE IF name = "on_uldata" THEN "ul"
    ELSE IF name = "post_dldata" THEN "dl"
    ELSE ""

\* the step task t is about to take
Cur(t) == Program(hist.at[t].prog)[hist.at[t].pos]
Busy(t) == t \in LockTasks(hist.bridge) /\ hist.at[t] # None
Held(t) == {m \in Mutexes : hist.mutex[m] = t}
\* the model's budget of inserts into buffer m is not used up
HasBudget(m) ==
    \/ m = ""
    \/ m = "queue" /\ hist.ins[m] < MaxLockIns
    \/ m \in {"ul", "dl"} /\ hist.ins[m] < hist.base + MaxLockIns

\* the handler takes no address
NoAddr == <<>>

\* the locals of a task that starts `name` (at position p, for addr)
Locals(name, p, addr) ==
    [prog |-> name, pos |-> p, ok |-> TRUE, addr |-> addr, snap |-> None]

\* task t moved on to position p; a `continue` of the event loop ends the
\* scope of the tick's locals
moved(h, t, p) ==
    IF h.at[t].prog = "event_loop" /\ p <= 4
    THEN [h EXCEPT !.at[t] = Locals("event_loop", p, NoAddr)]
    ELSE [h EXCEPT !.at[t].pos = p]

\* mutant of dropped: the guard is dropped without releasing the mutex
dropped_kept(mutex, m) == mutex

\* the mutexes after the guard of m was dropped
dropped(mutex, m) == [mutex EXCEPT ![m] = "free"]

\* mutant of acquirable: lock() does not wait for the holder
acquirable_any(mutex, m) == TRUE

\* lock() returns only when nobody holds the mutex
acquirable(mutex, m) == mutex[m] = "free"

InitLock ==
    /\ pc = "open" /\ counter = 0 /\ rx = None /\ data = None /\ ops = <<>>
    /\ cb = None /\ n_ul = 0 /\ n_dl = 0 /\ popped = <<>> /\ accepted = <<>>
    /\ port_connected = TRUE /\ chip_info = None /\ sensor_buff = None /\ broker = None
    /\ queue_dldata = <<>>
    /\ cmd = None
    /\ \E b \in {"net", "app"}, base \in {0, MAX_DATA} :
          /\ latest_uldata = LastInserted(base)
          /\ latest_dldata = LastInserted(base)
          /\ hist = [bridge |-> b, base |-> base,
                     mutex |-> [m \in Mutexes |-> "free"],
                     at |-> [t \in LockTasks(b) |->
                               IF t = "loop"
                               THEN Locals("event_loop", 1, NoAddr)
                               ELSE None],
                     ins |-> [m \in {"ul", "dl", "queue"} |-> IF m = "queue" THEN 0 ELSE base]]

lockbufs == <<latest_uldata, latest_dldata, queue_dldata, accepted, popped>>
lockrest == <<pc, counter, rx, data, ops, cb, n_ul, n_dl, cmd, devvars, broker>>

\* a broker message or an HTTP request arrives: the task starts its handler
LockStart(t, name, addr) ==
    /\ t \in LockTasks(hist.bridge)
    /\ hist.at[t] = None
    /\ name \in Programs(hist.bridge, t)
    /\ HasBudget(Pushes(name))
    /\ addr = NoAddr <=> name \notin {"on_dldata", "get_queue"}
    /\ hist' = [hist EXCEPT !.at[t] = Locals(name, 1, addr)]
    /\ UNCHANGED <<lockbufs, lockrest>>

\* `.await` of a sleep or of a dongle command: the task is suspended, then
\* goes on with the command's outcome
LockAwait(t, ok) ==
    /\ Busy(t)
    /\ Cur(t).ins = "await"
    /\ ok => HasBudget(Cur(t).m)
    /\ hist' = moved(hist, t, IF ok THEN Cur(t).ok ELSE Cur(t).err)
    /\ UNCHANGED <<lockbufs, lockrest>>

\* a branch on local data
LockChoice(t, ok) ==
    /\ Busy(t)
    /\ Cur(t).ins = "choice"
    /\ hist' = moved(hist, t, IF ok THEN Cur(t).ok ELSE Cur(t).err)
    /\ UNCHANGED <<lockbufs, lockrest>>

\* `.lock().unwrap()`
LockAcquire(t) ==
    /\ Busy(t)
    /\ Cur(t).ins = "lock"
    /\ acquirable(hist.mutex, Cur(t).m)
    /\ hist' = moved([hist EXCEPT !.mutex[Cur(t).m] = t], t, Cur(t).ok)
    /\ UNCHANGED <<lockbufs, lockrest>>

\* `(*mutex).push_back(..)` on a history, or on the queue of the handler's addr
LockPushBack(t) ==
    /\ Busy(t)
    /\ Cur(t).ins = "push_back"
    /\ LET m == Cur(t).m
           n == hist.ins[m] + 1
           rec == [data_id |-> n, network_addr |-> hist.at[t].addr]
       IN  /\ latest_uldata' = IF m = "ul" THEN push_back(latest_uldata, n)
                               ELSE latest_uldata
           /\ latest_dldata' = IF m = "dl" THEN push_back(latest_dldata, n)
                               ELSE latest_dldata
           /\ queue_dldata' = IF m = "queue"
                              THEN [queue_dldata EXCEPT ![rec.network_addr] = Append(@, rec)]
                              ELSE queue_dldata
           /\ accepted' = IF m = "queue" THEN Append(accepted, rec) ELSE accepted
           /\ hist' = moved([hist EXCEPT !.ins[m] = n], t, Cur(t).ok)
    /\ UNCHANGED <<popped, lockrest>>

\* `if (*mutex).len() > MAX_DATA { (*mutex).pop_front(); }`
LockTrim(t) ==
    /\ Busy(t)
    /\ Cur(t).ins = "trim"
    /\ latest_uldata' = IF Cur(t).m = "ul" THEN trim_latest(latest_uldata)
                        ELSE latest_uldata
    /\ latest_dldata' = IF Cur(t).m = "dl" THEN trim_latest(latest_dldata)
                        ELSE latest_dldata
    /\ hist' = moved(hist, t, Cur(t).ok)
    /\ UNCHANGED <<queue_dldata, accepted, popped, lockrest>>

\* `if !(*mutex).contains_key(addr) { (*mutex).insert(addr, VecDeque::new()); }`
LockInsertKey(t) ==
    /\ Busy(t)
    /\ Cur(t).ins = "insert_key"
    /\ queue_dldata' = IF hist.at[t].addr \in DOMAIN queue_dldata THEN queue_dldata
                       ELSE (hist.at[t].addr :> <<>>) @@ queue_dldata
    /\ hist' = moved(hist, t, Cur(t).ok)
    /\ UNCHANGED <<latest_uldata, latest_dldata, accepted, popped, lockrest>>

\* the loop's `get_mut(addr)` and `pop_front()`, addr the node of the uplink
LockPopFront(t, addr) ==
    /\ Busy(t)
    /\ Cur(t).ins = "pop_front"
    /\ LET d == queue_head(queue_dldata, addr)
       IN  /\ queue_dldata' = queue_pop(queue_dldata, addr)
           /\ popped' = IF d = None THEN popped ELSE Append(popped, d)
           /\ hist' = moved([hist EXCEPT !.at[t].ok = (d # None)], t, Cur(t).ok)
    /\ UNCHANGED <<latest_uldata, latest_dldata, accepted, lockrest>>

\* `(*mutex).iter().map(|x| x.clone()).collect()`; get_queue: vec![] for an
\* addr without a queue
LockClone(t) ==
    /\ Busy(t)
    /\ Cur(t).ins = "clone"
    /\ LET m == Cur(t).m
           a == hist.at[t].addr
           got == IF m = "queue"
                  THEN IF a \in DOMAIN queue_dldata THEN queue_dldata[a] ELSE <<>>
                  ELSE Buffer(m)
       IN  hist' = moved([hist EXCEPT !.at[t].snap = [of |-> m, data |-> got]],
                         t, Cur(t).ok)
    /\ UNCHANGED <<lockbufs, lockrest>>

\* on_dldata_resp, on_dldata_result: fields of one record rewritten in place
LockUpdate(t) ==
    /\ Busy(t)
    /\ Cur(t).ins = "update"
    /\ hist' = moved(hist, t, Cur(t).ok)
    /\ UNCHANGED <<lockbufs, lockrest>>

\* send_uldata, send_dldata, send_dldata_result
LockSend(t, ok) ==
    /\ Busy(t)
    /\ Cur(t).ins = "send"
    /\ hist' = moved([hist EXCEPT !.at[t].ok = ok], t, Cur(t).ok)
    /\ UNCHANGED <<lockbufs, lockrest>>

\* the guard goes out of scope, by the end of its block or by `continue`
LockRelease(t) ==
    /\ Busy(t)
    /\ Cur(t).ins = "unlock"
    /\ hist' = moved([hist EXCEPT !.mutex = dropped(hist.mutex, Cur(t).m)], t,
                     IF hist.at[t].ok THEN Cur(t).ok ELSE Cur(t).err)
    /\ UNCHANGED <<lockbufs, lockrest>>

\* the handler returns (an HTTP handler: its snapshot as the response)
LockReturn(t) ==
    /\ Busy(t)
    /\ Cur(t).ins = "return"
    /\ hist' = [hist EXCEPT !.at[t] = None]
    /\ UNCHANGED <<lockbufs, lockrest>>

LockNames == {"on_dldata", "get_uldata", "get_dldata", "get_queue", "on_uldata",
              "on_dldata_resp", "post_dldata"}

NextLock ==
    \/ \E t \in AllLockTasks, name \in LockNames, addr \in BrokerAddrs \cup {NoAddr} :
          LockStart(t, name, addr)
    \/ \E t \in AllLockTasks, ok \in BOOLEAN : LockAwait(t, ok)
    \/ \E t \in AllLockTasks, ok \in BOOLEAN : LockChoice(t, ok)
    \/ \E t \in AllLockTasks : LockAcquire(t)
    \/ \E t \in AllLockTasks : LockPushBack(t)
    \/ \E t \in AllLockTasks : LockTrim(t)
    \/ \E t \in AllLockTasks : LockInsertKey(t)
    \/ \E t \in AllLockTasks, addr \in BrokerAddrs : LockPopFront(t, addr)
    \/ \E t \in AllLockTasks : LockClone(t)
    \/ \E t \in AllLockTasks : LockUpdate(t)
    \/ \E t \in AllLockTasks, ok \in BOOLEAN : LockSend(t, ok)
    \/ \E t \in AllLockTasks : LockRelease(t)
    \/ \E t \in AllLockTasks : LockReturn(t)

SpecLock == InitLock /\ [][NextLock]_vars

----------------------------------------------------------------------------
(* Properties of the mutexes (checked under SpecLock).                     *)

\* task t waits in lock() for a mutex somebody holds
Blocked(t) == Busy(t) /\ Cur(t).ins = "lock" /\ hist.mutex[Cur(t).m] # "free"

\* C21: no task holds more than one of the four mutexes; a task that holds
\* one is neither suspended (a sleep, a dongle command) nor waiting for a
\* mutex nor gone; so whoever waits for a mutex waits for a task that can go
\* on and drop its guard: no interleaving deadlocks.
C21_OneMutexNoSuspension ==
    /\ \A t \in LockTasks(hist.bridge) :
          /\ Cardinality(Held(t)) <= 1
          /\ Held(t) # {} =>
                /\ Busy(t)
                /\ Cur(t).ins \notin {"await", "lock", "return"}
    /\ \A t \in LockTasks(hist.bridge) :
          Blocked(t) =>
              LET u == hist.mutex[Cur(t).m]
              IN  Busy(u) /\ ~Blocked(u) /\ Cur(u).ins # "await"

\* C21 witness: the event loop is inside its pop from the pending queue,
\* on_dldata waits for that mutex and an HTTP reader holds a history.
C21_Witness ==
    /\ hist.bridge = "net"
    /\ hist.mutex["queue"] = "loop"
    /\ Cur("loop").ins = "pop_front"
    /\ Blocked("callback")
    /\ hist.mutex["dl"] = "http"

\* the pushes on_dldata made for the address of a get_queue
PushedFor(a) == ForAddr(accepted, a)

\* C22: the snapshot a reader got (and is about to return) is the content
\* the buffer had at one instant outside every writer's critical section:
\* for a history the last min(n, MAX_DATA) inserted records in insertion
\* order for some number n of completed inserts (so never MAX_DATA + 1
\* records, never a pushed but untrimmed one); for a pending queue the
\* records pushed for that address from some pop on, in push order.
C22_SnapshotAtOneInstant ==
    \A t \in LockTasks(hist.bridge) :
        (Busy(t) /\ hist.at[t].snap # None) =>
            LET s == hist.at[t].snap
                F == PushedFor(hist.at[t].addr)
            IN  IF s.of = "queue"
                THEN \E i \in 0..Len(F) : \E j \in i..Len(F) :
                        s.data = SubSeq(F, i + 1, j)
                ELSE /\ Len(s.data) <= MAX_DATA
                     /\ \E n \in hist.base..hist.ins[s.of] :
                           s.data = LastInserted(n)

\* C22 witness: get_uldata is about to return the 100 records 1..100 while
\* the event loop, in its next insert, has pushed record 101 and not trimmed.
C22_Witness ==
    /\ hist.bridge = "net"
    /\ Busy("http")
    /\ Cur("http").ins = "return"
    /\ hist.at["http"].snap = [of |-> "ul", data |-> LastInserted(MAX_DATA)]
    /\ hist.mutex["ul"] = "loop"
    /\ Len(latest_uldata) = MAX_DATA + 1

----------------------------------------------------------------------------
(* The device (dev-demo): the event loop of dev_task.rs. The dongle driver *)
(* it calls is the DongleDriver of the specification: every command gives  *)
(* a value or an error.                                                    *)

\* what the driver's commands can give the device loop
DevSetValuesResults == {"ok", "err"}
DevWriteResults == {"ok", "err"}
DevCounterResults ==
    {[kind |-> "err"]} \cup {[kind |-> "ok", value |-> v] : v \in {0, 5, 65535}}
DevChipInfoResults ==
    {[kind |-> "err"],
     [kind |-> "ok", info |-> [fw_ver |-> 9, chip_id |-> 8, node_id |-> 42]],
     [kind |-> "ok", info |-> [fw_ver |-> 7, chip_id |-> 8, node_id |-> 0]]}
DevReadResults ==
    {[kind |-> "err"], [kind |-> "none"]} \cup
    {[kind |-> "some", data |-> d, rssi |-> -70] :
        d \in {<<1, 2, 3>>,
               <<0, 0, 0, 42, 0, 0, 0, 0, 1>>,
               <<0, 0, 0, 0, 0, 0, 0, 0, 2>>,
               <<10, 11, 12, 13, 0, 0, 0, 0, 3>>}}

\* read_temp_humid: a value of the SHTC3 from the 3 bytes read
shtc3_value(buf) == buf[1] * 256 + buf[2]

\* read_pressure_temp: the pressure from the status and the three output
\* registers of the LPS22HB
lps22hb_pressure(status, out_h, out_l, out_xl) ==
    IF status % 2 = 1 THEN out_h * 65536 + out_l * 256 + out_xl ELSE 0

\* what the two sensors can give: read_temp_humid, read_pressure_temp
TempHumidResults ==
    {[kind |-> "err"]} \cup
    {[kind |-> "ok", temp |-> shtc3_value(b[1]), humid |-> shtc3_value(b[2])] :
        b \in {<<<<102, 102, 0>>, <<128, 0, 0>>>>,
               <<<<0, 0, 0>>, <<255, 255, 0>>>>,
               <<<<255, 255, 0>>, <<1, 2, 0>>>>}}
PressureTempResults ==
    {[kind |-> "err"]} \cup
    {[kind |-> "ok", pressure |-> lps22hb_pressure(r[1], r[2], r[3], r[4]),
      temp |-> 2500] :
        r \in {<<1, 63, 80, 0>>, <<1, 255, 255, 255>>, <<0, 63, 80, 0>>, <<3, 0, 1, 2>>}}

u16_to_be_bytes(n) == <<(n \div 256) % 256, n % 256>>

\* buff[at..at + len].clone_from_slice(bytes), `at` counted from 0
clone_from_slice(b, at, bytes) ==
    [i \in 1..Len(b) |->
        IF i > at /\ i <= at + Len(bytes) THEN bytes[i - at] ELSE b[i]]

\* mutant of dev_buff: the pressure written last, over the humidity
dev_buff_pressure_last(node_id, temp, humid, pressure) ==
    LET b0 == [i \in 1..16 |-> 0]
        b1 == clone_from_slice(b0, 0, u32_to_be_bytes(node_id))
        b2 == clone_from_slice(b1, 8, u16_to_be_bytes(temp))
        b3 == clone_from_slice(b2, 10, u16_to_be_bytes(humid))
    IN  clone_from_slice(b3, 11, u32_to_be_bytes(pressure))

\* the 16 bytes of `buff`: node id, pressure at 11..15, temperature at
\* 8..10, then humidity at 10..12 over the first byte of the pressure
dev_buff(node_id, temp, humid, pressure) ==
    LET b0 == [i \in 1..16 |-> 0]
        b1 == clone_from_slice(b0, 0, u32_to_be_bytes(node_id))
        b2 == clone_from_slice(b1, 11, u32_to_be_bytes(pressure))
        b3 == clone_from_slice(b2, 8, u16_to_be_bytes(temp))
    IN  clone_from_slice(b3, 10, u16_to_be_bytes(humid))

\* what the loop logs for a received frame
dev_rx_log(node_id, own) ==
    IF node_id = own THEN "self" ELSE IF node_id = 0 THEN "broadcast" ELSE "other"

\* where the loop goes after set_values(TX)
dev_set_tx_next(res) == IF res = "ok" THEN "write_data" ELSE "restore_rx_tx_err"

\* mutant of dev_write_next: a failed write ends the tick at once
dev_write_next_continue(res) == IF res = "ok" THEN "restore_rx" ELSE "top"

\* where the loop goes after write_data
dev_write_next(res) == IF res = "ok" THEN "restore_rx" ELSE "restore_rx_wr_err"

DevRestorePcs == {"restore_rx_tx_err", "restore_rx_wr_err", "restore_rx"}

InitDev == InitNet /\ InitIdle

devrest == <<broker, data, latest_uldata, latest_dldata, queue_dldata, cb, n_ul, n_dl,
             accepted, popped, hist, cmd>>

\* connect_port: the sleep, then IfroglabLora::new
DevOpen(ok) ==
    /\ pc = "open"
    /\ pc' = IF ok THEN "conn_chip_info" ELSE "open"
    /\ ops' = <<[op |-> "sleep", ms |-> SLEEP_IDLE_MS], [op |-> "new", ok |-> ok]>>
    /\ UNCHANGED <<counter, rx, port_connected, chip_info, sensor_buff, devrest>>

\* connect_port: cmd00_chip_info
DevConnChipInfo(r) ==
    /\ pc = "conn_chip_info"
    /\ pc' = IF r.kind = "ok" THEN "conn_set_rx" ELSE "open"
    /\ rx' = IF r.kind = "ok" THEN [chip_info |-> r.info] ELSE rx
    /\ ops' = Append(ops, [op |-> "cmd00", res |-> r])
    /\ UNCHANGED <<counter, port_connected, chip_info, sensor_buff, devrest>>

\* connect_port: cmd03_set_values(3, freq, power)
DevConnSetRx(res) ==
    /\ pc = "conn_set_rx"
    /\ pc' = IF res = "ok" THEN "conn_counter" ELSE "open"
    /\ ops' = Append(ops, [op |-> "cmd03", mode |-> 3, res |-> res])
    /\ UNCHANGED <<counter, rx, port_connected, chip_info, sensor_buff, devrest>>

\* connect_port: cmd07_read_data_counter, then break (port, chip_info,
\* counter), assigned by the caller; before the loop port_connected is
\* declared true
DevConnCounter(r) ==
    /\ pc = "conn_counter"
    /\ ops' = Append(ops, [op |-> "cmd07", res |-> r, old |-> counter])
    /\ IF r.kind = "ok"
       THEN /\ pc' = "poll"
            /\ counter' = r.value
            /\ chip_info' = rx.chip_info
            /\ rx' = None
            /\ port_connected' = TRUE
       ELSE /\ pc' = "open"
            /\ UNCHANGED <<counter, chip_info, rx, port_connected>>
    /\ UNCHANGED <<sensor_buff, devrest>>

\* the head of the main loop: reconnect when the port is marked disconnected
DevTop ==
    /\ pc = "top"
    /\ ops' = <<>>
    /\ IF port_connected = FALSE
       THEN pc' = "open" /\ port_connected' = TRUE
       ELSE pc' = "poll" /\ UNCHANGED port_connected
    /\ UNCHANGED <<counter, rx, chip_info, sensor_buff, devrest>>

\* main loop: the sleep to the next second, then cmd07_read_data_counter
DevPoll(r) ==
    /\ pc = "poll"
    /\ ops' = Append(ops, [op |-> "cmd07", res |-> r, old |-> counter])
    /\ IF r.kind = "err"
       THEN pc' = "top" /\ port_connected' = FALSE /\ UNCHANGED <<counter, rx>>
       ELSE IF r.value # counter
       THEN /\ pc' = "read_data"
            /\ rx' = [new_counter |-> r.value]
            /\ UNCHANGED <<counter, port_connected>>
       ELSE pc' = "sensors" /\ counter' = r.value /\ UNCHANGED <<rx, port_connected>>
    /\ UNCHANGED <<chip_info, sensor_buff, devrest>>

\* mutant of dev_read_arm: an error of read_data only ends the tick
dev_read_arm_continue(r) ==
    IF r.kind \in {"err", "none"} THEN "continue"
    ELSE IF parse_rx_data(r.data).kind = "err" THEN "continue"
    ELSE "log"

\* the arm the loop takes on what cmd06_read_data returned: "disconnect"
\* (port_connected = false; continue), "continue", or "log" (go on)
dev_read_arm(r) ==
    IF r.kind = "err" THEN "disconnect"
    ELSE IF r.kind = "none" THEN "continue"
    ELSE IF parse_rx_data(r.data).kind = "err" THEN "continue"
    ELSE "log"

\* main loop: cmd06_read_data, parse_rx_data, the log, counter = new_counter
DevReadData(r) ==
    /\ pc = "read_data"
    /\ rx' = None
    /\ LET arm == dev_read_arm(r)
       IN  IF arm = "disconnect"
           THEN /\ pc' = "top" /\ port_connected' = FALSE
                /\ ops' = Append(ops, [op |-> "cmd06", res |-> r])
                /\ UNCHANGED counter
           ELSE IF arm = "continue"
           THEN /\ pc' = "top"
                /\ ops' = Append(ops, [op |-> "cmd06", res |-> r])
                /\ UNCHANGED <<counter, port_connected>>
           ELSE /\ pc' = "sensors"
                /\ counter' = rx.new_counter
                /\ ops' = ops \o <<[op |-> "cmd06", res |-> r],
                                  [op |-> "log",
                                   what |-> dev_rx_log(parse_rx_data(r.data).node_id,
                                                       chip_info.node_id)]>>
                /\ UNCHANGED port_connected
    /\ UNCHANGED <<chip_info, sensor_buff, devrest>>

\* (175_u32 * temp as u32) / 65536 - 45 of the info! line: a u32, a panic
\* of the subtraction when the build checks overflow, or the wrapped u32
\* 2^32 - below when it does not
temp_celsius(temp, overflow_checks) ==
    LET q == (175 * temp) \div 65536
    IN  IF q >= 45 THEN [kind |-> "ok", value |-> q - 45]
        ELSE IF overflow_checks THEN [kind |-> "panic"]
        ELSE [kind |-> "wrapped", below |-> 45 - q]

\* main loop: read_temp_humid, read_pressure_temp, the info! line and the
\* TX buffer
DevSensors(th, pt, overflow_checks) ==
    /\ pc = "sensors"
    /\ IF th.kind = "err"
       THEN /\ pc' = "top"
            /\ ops' = Append(ops, [op |-> "read_temp_humid", ok |-> FALSE])
            /\ UNCHANGED sensor_buff
       ELSE IF pt.kind = "err"
       THEN /\ pc' = "top"
            /\ ops' = ops \o <<[op |-> "read_temp_humid", ok |-> TRUE],
                              [op |-> "read_pressure_temp", ok |-> FALSE]>>
            /\ UNCHANGED sensor_buff
       ELSE LET c == temp_celsius(th.temp, overflow_checks)
            IN  /\ ops' = ops \o <<[op |-> "read_temp_humid", ok |-> TRUE, v |-> th],
                                  [op |-> "read_pressure_temp", ok |-> TRUE, v |-> pt],
                                  [op |-> "info", celsius |-> c]>>
                /\ IF c.kind = "panic"
                   THEN pc' = "aborted" /\ UNCHANGED sensor_buff
                   ELSE /\ pc' = "set_tx"
                        /\ sensor_buff' = dev_buff(chip_info.node_id, th.temp,
                                                   th.humid, pt.pressure)
    /\ UNCHANGED <<counter, rx, port_connected, chip_info, devrest>>

\* main loop: cmd03_set_values(2, freq, power)
DevSetTx(res) ==
    /\ pc = "set_tx"
    /\ pc' = dev_set_tx_next(res)
    /\ ops' = Append(ops, [op |-> "cmd03", mode |-> 2, res |-> res])
    /\ UNCHANGED <<counter, rx, port_connected, chip_info, sensor_buff, devrest>>

\* main loop: cmd05_write_data(&buff[..15])
DevWriteData(res) ==
    /\ pc = "write_data"
    /\ pc' = dev_write_next(res)
    /\ ops' = Append(ops, [op |-> "cmd05", data |-> SubSeq(sensor_buff, 1, 15), res |-> res])
    /\ UNCHANGED <<counter, rx, port_connected, chip_info, sensor_buff, devrest>>

\* main loop: cmd03_set_values(3, freq, power) at each of its three places,
\* then `continue` or the end of the loop body
DevRestoreRx(res) ==
    /\ pc \in DevRestorePcs
    /\ pc' = "top"
    /\ ops' = Append(ops, [op |-> "cmd03", mode |-> 3, res |-> res])
    /\ port_connected' = IF res = "ok" THEN port_connected ELSE FALSE
    /\ UNCHANGED <<counter, rx, chip_info, sensor_buff, devrest>>

NextDev ==
    \/ \E ok \in BOOLEAN : DevOpen(ok)
    \/ \E r \in DevChipInfoResults : DevConnChipInfo(r)
    \/ \E res \in DevSetValuesResults : DevConnSetRx(res)
    \/ \E r \in DevCounterResults : DevConnCounter(r)
    \/ DevTop
    \/ \E r \in DevCounterResults : DevPoll(r)
    \/ \E r \in DevReadResults : DevReadData(r)
    \/ \E th \in TempHumidResults, pt \in PressureTempResults,
          overflow_checks \in BOOLEAN : DevSensors(th, pt, overflow_checks)
    \/ \E res \in DevSetValuesResults : DevSetTx(res)
    \/ \E res \in DevWriteResults : DevWriteData(res)
    \/ \E res \in DevSetValuesResults : DevRestoreRx(res)

SpecDev == InitDev /\ [][NextDev]_vars

----------------------------------------------------------------------------
(* Properties of the device loop (checked under SpecDev).                  *)

\* every set_values(TX) in ops is followed by a set_values(RX) in ops
TxThenRx(o) ==
    \A i \in 1..Len(o) :
        (o[i].op = "cmd03" /\ o[i].mode = 2) =>
            \E j \in (i + 1)..Len(o) : o[j].op = "cmd03" /\ o[j].mode = 3

\* ops has a set_values(TX)
HasTx(o) == \E i \in 1..Len(o) : o[i].op = "cmd03" /\ o[i].mode = 2

\* the connect sequence, up to its n-th step
DevConnectOps(n) ==
    /\ Len(ops) >= n
    /\ ops[1] = [op |-> "sleep", ms |-> 100]
    /\ ops[2].op = "new"
    /\ n >= 3 => ops[3].op = "cmd00" /\ ops[3].res.kind = "ok"
    /\ n >= 4 => ops[4] = [op |-> "cmd03", mode |-> 3, res |-> "ok"]
    /\ n >= 5 => ops[5].op = "cmd07" /\ ops[5].res.kind = "ok"

\* C30: in the device loop a tick that attempted set_values(TX) ends only
\* after it attempted set_values(RX) later on, whatever set_values(TX) and
\* write_data returned; a restore that fails marks the port disconnected,
\* and with the port marked disconnected the loop does nothing but go to the
\* connect sequence, which it completes before the next command of the main
\* loop.
C30_DeviceRestoresRxAfterTx ==
    [][/\ (pc # "top" /\ pc' = "top") => TxThenRx(ops')
       /\ (HasTx(ops) /\ ~TxThenRx(ops)) =>
             (pc \in {"write_data"} \cup DevRestorePcs /\ ops' # <<>>)
       /\ \A res \in DevSetValuesResults :
             (DevRestoreRx(res) /\ res = "err") =>
                 (port_connected' = FALSE /\ pc' = "top")
       /\ port_connected = FALSE => (pc = "top" /\ pc' = "open")
       /\ (pc \in {"open", "conn_chip_info", "conn_set_rx", "conn_counter"}
           /\ pc' \notin {"open", "conn_chip_info", "conn_set_rx", "conn_counter"}) =>
             /\ pc' = "poll"
             /\ Len(ops') = 5 /\ DevConnectOps(5)'
             /\ port_connected' = TRUE]_vars

\* C30 witness: set_values(TX) succeeded, write_data failed, the restore was
\* attempted and failed too: the tick is over with the port marked
\* disconnected.
C30_Witness ==
    /\ pc = "top"
    /\ port_connected = FALSE
    /\ Len(ops) >= 3
    /\ LET n == Len(ops)
       IN  /\ ops[n] = [op |-> "cmd03", mode |-> 3, res |-> "err"]
           /\ ops[n - 1].op = "cmd05" /\ ops[n - 1].res = "err"
           /\ ops[n - 2] = [op |-> "cmd03", mode |-> 2, res |-> "ok"]

\* the frame read_data returned cannot be decoded
Undecodable(r) == r.kind = "some" /\ parse_rx_data(r.data).kind = "err"

\* the step marks the port disconnected and ends the tick
MarksDisconnected == port_connected' = FALSE /\ pc' = "top"

\* with the port marked disconnected the loop goes to the connect sequence,
\* and leaves it for the main loop only with all of it done on one port
ReconnectsFirst ==
    /\ port_connected = FALSE => (pc = "top" /\ pc' = "open" /\ ops' = <<>>)
    /\ (pc = "conn_counter" /\ pc' = "poll") =>
          (Len(ops') = 5 /\ DevConnectOps(5)')
    /\ (pc # "poll" /\ pc' = "poll") =>
          (pc = "conn_counter" \/ (pc = "top" /\ port_connected = TRUE))

\* C31 as claimed: in the device loop an error of read_counter, an error of
\* read_data and a frame that cannot be decoded each mark the port
\* disconnected, and the connect sequence runs before any other command.
C31_ReadPhaseErrorsDisconnect ==
    [][/\ \A r \in DevCounterResults :
             (DevPoll(r) /\ r.kind = "err") => MarksDisconnected
       /\ \A r \in DevReadResults :
             (DevReadData(r) /\ (r.kind = "err" \/ Undecodable(r))) =>
                 MarksDisconnected
       /\ ReconnectsFirst]_vars

\* C31 amended: an error of read_counter or of read_data marks the port
\* disconnected, and the next iteration runs the whole connect sequence
\* before any other command; a frame that cannot be decoded leaves the port
\* marked connected.
C31_DriverErrorsDisconnect ==
    [][/\ \A r \in DevCounterResults :
             (DevPoll(r) /\ r.kind = "err") => MarksDisconnected
       /\ \A r \in DevReadResults :
             /\ (DevReadData(r) /\ r.kind = "err") => MarksDisconnected
             /\ (DevReadData(r) /\ Undecodable(r)) =>
                   (port_connected' = TRUE /\ port_connected = TRUE)
       /\ ReconnectsFirst]_vars

\* C31 witness: read_data failed in a tick whose counter had changed, the
\* port is marked disconnected and the tick is over.
C31_Witness ==
    /\ pc = "top"
    /\ port_connected = FALSE
    /\ Len(ops) = 2
    /\ ops[1].op = "cmd07" /\ ops[1].res.kind = "ok"
    /\ ops[2] = [op |-> "cmd06", res |-> [kind |-> "err"]]

\* the poll of the tick: the last cmd07 of ops
LastCounterRead == 
    LET idx == {i \in 1..Len(ops) : ops[i].op = "cmd07"}
    IN  IF idx = {} THEN None ELSE ops[CHOOSE i \in idx : \A j \in idx : j <= i]

\* C32: in the device loop, at the end of every tick in which read_counter
\* succeeded the stored counter is the value read, whatever read_data
\* returned and whether or not the frame could be decoded.
C32_CounterStoredAfterPoll ==
    (pc = "top" /\ LastCounterRead # None /\ LastCounterRead.res.kind = "ok") =>
        counter = LastCounterRead.res.value

\* what the main loop did in the tick, the connect sequence left out
TickOps ==
    IF ops # <<>> /\ ops[1].op = "sleep" THEN SubSeq(ops, 6, Len(ops)) ELSE ops

\* the command or sensor read o did not fail
Succeeded(o) ==
    IF o.op \in {"cmd07", "cmd06"} THEN o.res.kind # "err"
    ELSE IF o.op \in {"cmd03", "cmd05"} THEN o.res = "ok"
    ELSE IF o.op \in {"read_temp_humid", "read_pressure_temp"} THEN o.ok
    ELSE TRUE

\* the set_values and write_data of the tick, in order
TxOps == SelectSeq(TickOps, LAMBDA o : o.op \in {"cmd03", "cmd05"})

\* C33: a tick of the device loop in which no dongle command and no sensor
\* read failed transmitted exactly one frame, as set_values(TX), write_data
\* of 15 bytes, set_values(RX) in that order, whether or not the counter
\* changed and whatever read_data returned.
C33_OneSamplePerGoodTick ==
    (pc = "top" /\ TickOps # <<>> /\ \A i \in 1..Len(TickOps) : Succeeded(TickOps[i])) =>
        /\ Len(TxOps) = 3
        /\ TxOps[1].op = "cmd03" /\ TxOps[1].mode = 2
        /\ TxOps[2].op = "cmd05" /\ Len(TxOps[2].data) = 15
        /\ TxOps[3].op = "cmd03" /\ TxOps[3].mode = 3

\* the frames written in ops, each with the sensor values read before it
SampleWrites ==
    {i \in 1..Len(ops) : ops[i].op = "cmd05"}
SampleTH(i) == ops[CHOOSE k \in 1..i : ops[k].op = "read_temp_humid" /\ ops[k].ok].v
SamplePT(i) == ops[CHOOSE k \in 1..i : ops[k].op = "read_pressure_temp" /\ ops[k].ok].v

\* C34: the 15 bytes the device loop writes are the node id big-endian, 4
\* zero bytes, temp big-endian, humid big-endian and the low 3 bytes of the
\* pressure big-endian; the pressure read is below 2^24, so temp, humid and
\* pressure are the numbers the frame's bytes 8..10, 10..12 and 12..15 spell.
C34_SampleFrameLayout ==
    \A i \in SampleWrites :
        LET f == ops[i].data
            th == SampleTH(i)
            pt == SamplePT(i)
            n == chip_info.node_id
        IN  /\ Len(f) = 15
            /\ SubSeq(f, 1, 4) = <<(n \div 16777216) % 256, (n \div 65536) % 256,
                                   (n \div 256) % 256, n % 256>>
            /\ SubSeq(f, 5, 8) = <<0, 0, 0, 0>>
            /\ SubSeq(f, 9, 10) = <<th.temp \div 256, th.temp % 256>>
            /\ SubSeq(f, 11, 12) = <<th.humid \div 256, th.humid % 256>>
            /\ SubSeq(f, 13, 15) = <<(pt.pressure \div 65536) % 256,
                                     (pt.pressure \div 256) % 256, pt.pressure % 256>>
            /\ pt.pressure < 16777216
            /\ th.temp = f[9] * 256 + f[10]
            /\ th.humid = f[11] * 256 + f[12]
            /\ pt.pressure = (f[13] * 256 + f[14]) * 256 + f[15]

\* C34 witness: a frame was written with humidity 0xffff and the largest
\* pressure 0xffffff, from the node 42.
C34_Witness ==
    \E i \in SampleWrites :
        /\ SampleTH(i).humid = 65535
        /\ SamplePT(i).pressure = 16777215
        /\ chip_info.node_id = 42
        /\ ops[i].data = <<0, 0, 0, 42, 0, 0, 0, 0, 0, 0, 255, 255, 255, 255, 255>>

\* the info! lines of ops
InfoLines == {i \in 1..Len(ops) : ops[i].op = "info"}

\* C35: for the raw temperature of every info! line, 175*temp/65536 - 45 as
\* the loop computes it in u32 neither underflows nor overflows: it is the
\* number floor(175*temp/65536) - 45, between -45 and 129.
C35_CelsiusInRange ==
    \A i \in InfoLines :
        LET temp == SampleTH(i).temp
            c == ops[i].celsius
        IN  /\ 175 * temp < 2147483647
            /\ c.kind = "ok"
            /\ c.value = (175 * temp) \div 65536 - 45
            /\ c.value \in -45..129

----------------------------------------------------------------------------
(* SpecApp: the application bridge (app-demo).  POST /data pushes a record  *)
(* to the downlink history and sends the downlink to the broker; the       *)
(* broker answers each downlink it was sent with a response (on_dldata_resp)*)
(* and, when it accepted the downlink, a result (on_dldata_result), each   *)
(* on a queue of its own, so in either order.                              *)

MaxPosts == 2

\* Option<String>::None of a record or a message
NoStr == "-"

\* strings::random_id(&now, 4): what POST /data can draw; two requests can
\* draw the same id
CorrIds == {"c1", "c2"}

\* the data id the broker gives the k-th downlink it was sent
BrokerDataId(k) == <<"d1", "d2", "d3", "d4">>[k]

ResultStatuses == {0, 3}
ResultMessages == {NoStr, "m_result"}

\* a record of an earlier run of the bridge, completed
OldDlData ==
    [correlation_id |-> "old", data_id |-> "d_old", status |-> 0,
     error |-> NoStr, message |-> NoStr]

\* `DlData { correlation_id, data_id: None, status: -2, error: None, message: None }`
new_dldata(cid) ==
    [correlation_id |-> cid, data_id |-> NoStr, status |-> -2,
     error |-> NoStr, message |-> NoStr]

FirstOf(S) == CHOOSE i \in S : \A j \in S : i <= j

\* mutant of resp_update: no `break`, every matching record is updated
resp_update_all(h, msg) ==
    [i \in 1..Len(h) |->
        IF h[i].correlation_id = msg.correlation_id
        THEN [h[i] EXCEPT !.data_id = msg.data_id, !.error = msg.error,
                          !.message = msg.message]
        ELSE h[i]]

\* the scan of on_dldata_resp: the first record with the correlation id
resp_update(h, msg) ==
    LET M == {i \in 1..Len(h) : h[i].correlation_id = msg.correlation_id}
    IN  IF M = {} THEN h
        ELSE [h EXCEPT ![FirstOf(M)] =
                [@ EXCEPT !.data_id = msg.data_id, !.error = msg.error,
                          !.message = msg.message]]

\* the scan of on_dldata_result: the first record that has the data id
result_update(h, msg) ==
    LET M == {i \in 1..Len(h) :
                h[i].data_id # NoStr /\ h[i].data_id = msg.data_id}
    IN  IF M = {} THEN h
        ELSE [h EXCEPT ![FirstOf(M)] =
                [@ EXCEPT !.status = msg.status, !.message = msg.message]]

\* the response the broker sends for its k-th downlink
RespOf(k) ==
    IF broker[k].verdict = "ok"
    THEN [correlation_id |-> broker[k].correlation_id, data_id |-> broker[k].data_id,
          error |-> NoStr, message |-> NoStr, k |-> k]
    ELSE [correlation_id |-> broker[k].correlation_id, data_id |-> NoStr,
          error |-> "err_param", message |-> "m_resp", k |-> k]

\* a response for a downlink that is not in the history
StrayResp ==
    [correlation_id |-> "cx", data_id |-> "dx", error |-> NoStr,
     message |-> NoStr, k |-> 0]

Resps ==
    {RespOf(k) : k \in {j \in 1..Len(broker) :
                          broker[j].sent /\ ~ \E n \in 1..Len(broker[j].order) :
                                                  broker[j].order[n] = "resp"}}
    \cup {StrayResp}

Results ==
    {[data_id |-> broker[k].data_id, status |-> s, message |-> m, k |-> k] :
        k \in {j \in 1..Len(broker) :
                 /\ broker[j].sent /\ broker[j].verdict = "ok"
                 /\ ~ \E n \in 1..Len(broker[j].order) :
                          broker[j].order[n] = "result"},
        s \in ResultStatuses, m \in ResultMessages}

InitApp ==
    /\ pc = "app" /\ counter = 0 /\ rx = None /\ data = None
    /\ latest_uldata = <<>>
    /\ latest_dldata \in {<<>>, [i \in 1..MAX_DATA |-> OldDlData]}
    /\ queue_dldata = <<>> /\ ops = <<>> /\ cb = None
    /\ n_ul = 0 /\ n_dl = 0 /\ accepted = <<>> /\ popped = <<>>
    /\ hist = None /\ cmd = None
    /\ port_connected = TRUE /\ chip_info = None /\ sensor_buff = None
    /\ broker = <<>>

apprest == <<pc, counter, rx, data, latest_uldata, queue_dldata, ops, n_ul, n_dl,
             accepted, popped, hist, cmd, devvars>>

\* POST /data (routes/v1/data.rs post_dldata)
AppPostDlData(cid, hex_ok, send_ok, verdict) ==
    /\ pc = "app"
    /\ Len(broker) < MaxPosts
    /\ IF ~hex_ok
       THEN /\ cb' = [at |-> "returned", ret |-> "ErrParam"]
            /\ UNCHANGED <<latest_dldata, broker>>
       ELSE /\ latest_dldata' = push_latest(latest_dldata, new_dldata(cid))
            /\ broker' = Append(broker,
                    [correlation_id |-> cid, sent |-> send_ok,
                     data_id |-> BrokerDataId(Len(broker) + 1),
                     verdict |-> IF send_ok THEN verdict ELSE "none",
                     order |-> <<>>, result |-> None])
            /\ cb' = [at |-> "returned",
                      ret |-> IF send_ok THEN "NO_CONTENT" ELSE "ErrIntMsg"]
    /\ UNCHANGED apprest

\* MgrHandler::on_dldata_resp
AppOnDlDataResp(msg) ==
    /\ pc = "app"
    /\ latest_dldata' = resp_update(latest_dldata, msg)
    /\ broker' = IF msg.k = 0 THEN broker
                 ELSE [broker EXCEPT ![msg.k].order = Append(@, "resp")]
    /\ cb' = [at |-> "returned", ret |-> "Ok"]
    /\ UNCHANGED apprest

\* MgrHandler::on_dldata_result
AppOnDlDataResult(msg) ==
    /\ pc = "app"
    /\ latest_dldata' = result_update(latest_dldata, msg)
    /\ broker' = [broker EXCEPT ![msg.k].order = Append(@, "result"),
                                ![msg.k].result = [status |-> msg.status,
                                                   message |-> msg.message]]
    /\ cb' = [at |-> "returned", ret |-> "Ok"]
    /\ UNCHANGED apprest

NextApp ==
    \/ \E cid \in CorrIds, hex_ok \in BOOLEAN, send_ok \in BOOLEAN,
          verdict \in {"ok", "err"} : AppPostDlData(cid, hex_ok, send_ok, verdict)
    \/ \E msg \in Resps : AppOnDlDataResp(msg)
    \/ \E msg \in Results : AppOnDlDataResult(msg)

SpecApp == InitApp /\ [][NextApp]_vars

\* the history record of the k-th downlink pushed by POST /data
RecordOf(k) == latest_dldata[Len(latest_dldata) - Len(broker) + k]

Matching(msg) ==
    {i \in 1..Len(latest_dldata) :
        latest_dldata[i].correlation_id = msg.correlation_id}

\* C36: on_dldata_resp copies data_id, error and message into the first
\* history record with the response's correlation id and changes no other
\* record; the history keeps its length and order; without a matching record
\* the history is unchanged; the callback returns Ok either way.
C36_RespUpdatesFirstMatch ==
    [][\A msg \in Resps : AppOnDlDataResp(msg) =>
        /\ Len(latest_dldata') = Len(latest_dldata)
        /\ cb'.ret = "Ok"
        /\ IF Matching(msg) = {} THEN latest_dldata' = latest_dldata
           ELSE \E i \in Matching(msg) :
                  /\ \A j \in Matching(msg) : i <= j
                  /\ latest_dldata'[i] =
                        [latest_dldata[i] EXCEPT !.data_id = msg.data_id,
                                                 !.error = msg.error,
                                                 !.message = msg.message]
                  /\ \A j \in 1..Len(latest_dldata) :
                        j # i => latest_dldata'[j] = latest_dldata[j]]_vars

\* a full history with two records of one correlation id: the response was
\* processed, the first has the data id and the second has none
C36_Witness ==
    /\ Len(latest_dldata) = MAX_DATA
    /\ Len(broker) = 2
    /\ broker[1].correlation_id = broker[2].correlation_id
    /\ broker[2].order = <<"resp">>
    /\ RecordOf(1).data_id = broker[2].data_id
    /\ RecordOf(2).data_id = NoStr
    /\ cb = [at |-> "returned", ret |-> "Ok"]

\* the broker has delivered both callbacks of its k-th downlink
BothProcessed(k) ==
    /\ broker[k].sent
    /\ broker[k].order \in {<<"resp", "result">>, <<"result", "resp">>}

\* no other posted downlink drew the correlation id of the k-th
OwnCorrelationId(k) ==
    \A j \in 1..Len(broker) :
        j # k => broker[j].correlation_id # broker[k].correlation_id

\* C37: once the response and the result of a posted downlink have both been
\* processed, in either order, its history record has the status and the
\* message of the result.
C37_ResultWinsEitherOrder ==
    \A k \in 1..Len(broker) :
        (BothProcessed(k) /\ OwnCorrelationId(k)) =>
            /\ RecordOf(k).status = broker[k].result.status
            /\ RecordOf(k).message = broker[k].result.message

\* the same for the response processed first
C37_ResultAfterResp ==
    \A k \in 1..Len(broker) :
        (broker[k].sent /\ broker[k].order = <<"resp", "result">>
         /\ OwnCorrelationId(k)) =>
            /\ RecordOf(k).status = broker[k].result.status
            /\ RecordOf(k).message = broker[k].result.message

\* bytes the serial reads of the current read_ack delivered
BytesRead ==
    LET RECURSIVE sum(_)
        sum(i) == IF i = 0 THEN 0
                  ELSE sum(i - 1) + (IF cmd.chunks[i] > 0 THEN cmd.chunks[i] ELSE 0)
    IN  sum(Len(cmd.chunks))

\* C38: read_ack returns a payload only when the reads of this invocation
\* delivered the whole ACK, len + 4 bytes with len the third byte: never on
\* bytes an earlier ACK left in the buffer or that were not received.
C38_OkOnlyOnCompleteAck ==
    (cmd.pc = "done" /\ cmd.result # None /\ cmd.result.kind = "ok") =>
        BytesRead >= cmd.buff[3] + 4

\* where the downlink `id` is in the pending queues, and in the history
QueuedAt(id) ==
    {p \in UNION {{<<a, i>> : i \in 1..Len(queue_dldata[a])} : a \in DOMAIN queue_dldata} :
        queue_dldata[p[1]][p[2]].data_id = id}
StoredAt(id) == {i \in 1..Len(latest_dldata) : latest_dldata[i].data_id = id}
PoppedAt(id) == {i \in 1..Len(popped) : popped[i].data_id = id}

\* every accepted downlink is at most once in the queues and the history
\* together, popped at most once, and not in a queue once popped
InOnePlace ==
    \A n \in 1..Len(accepted) :
        LET id == accepted[n].data_id
        IN  /\ Cardinality(QueuedAt(id)) + Cardinality(StoredAt(id)) <= 1
            /\ Cardinality(PoppedAt(id)) <= 1
            /\ PoppedAt(id) # {} => QueuedAt(id) = {}

\* C39: an accepted downlink is at every moment in at most one of the
\* pending queue and the downlink history and, once popped, never in a queue
\* again, whatever set_values(TX) or write_data returned; a write_data sends
\* the downlink of the tick's pop, the only write of the tick, and no
\* downlink is popped twice: each is written at most once.  (Nothing is
\* accepted, queued, popped or stored at the start, so the places are looked
\* at after the steps that change them; the pops are only ever added to.)
C39_WrittenAtMostOnceNeverRequeued ==
    [][/\ <<queue_dldata, latest_dldata, popped>>' # <<queue_dldata, latest_dldata, popped>>
            => InOnePlace'
       /\ \A ack \in Acks05 :
            (LoopWriteData(ack) /\ pc' # "aborted") =>
                /\ OpIdx("cmd05") = {}
                /\ Cardinality({i \in 1..Len(ops') : ops'[i].op = "cmd05"}) = 1
                /\ Cardinality({i \in OpIdx("pop") : ops[i].data_id = data.data_id}) = 1
                /\ popped[Len(popped)].data_id = data.data_id
       /\ popped' # popped => SubSeq(popped', 1, Len(popped)) = popped]_vars

\* both accepted downlinks were popped: the first was written and is in the
\* history, the write of the second has just failed and it is in neither
C39_Witness ==
    /\ Len(accepted) = 2 /\ Len(popped) = 2
    /\ StoredAt(popped[1].data_id) # {}
    /\ StoredAt(popped[2].data_id) = {} /\ QueuedAt(popped[2].data_id) = {}
    /\ \E i \in OpIdx("cmd05") : ops[i].res # "ok"
    /\ pc = "restore_rx_err"

----------------------------------------------------------------------------
(* SpecLive: the network bridge running for ever, from a state of its main *)
(* loop in which the port is connected, no tick is under way and the       *)
(* uplink history is full.  The event loop is a task of its own that the   *)
(* runtime keeps scheduling (weak fairness of its next step); the uplinks  *)
(* come from one node, A, with the clock of the model standing still, so   *)
(* the uplink history, full of A's frame, stays as it is; the broker       *)
(* delivers MaxDl downlinks for A.                                         *)

\* the network address of A
LiveAddr == format_addr(42)

\* the cmd06 ACKs of SpecLive: every one of Acks06 but the frames of other nodes
LiveAcks06 ==
    {a \in Acks06 :
        parse_rx_data_ok(a) =>
            format_addr(parse_rx_data(cmd06_read_data(a).data).node_id) = LiveAddr}

\* the uplink history after MAX_DATA frames of A
LiveUldata ==
    LET a == CHOOSE x \in LiveAcks06 : parse_rx_data_ok(x)
        r == cmd06_read_data(a)
        f == parse_rx_data(r.data)
    IN  [i \in 1..MAX_DATA |->
            [time |-> 1, network_addr |-> format_addr(f.node_id),
             data |-> hex_encode(f.payload), rssi |-> r.rssi]]

InitLive ==
    /\ port_connected = TRUE /\ chip_info = None /\ sensor_buff = None /\ broker = None
    /\ pc = "poll" /\ counter = 0 /\ rx = None /\ data = None
    /\ latest_uldata = LiveUldata /\ n_ul = 1
    /\ latest_dldata = <<>> /\ queue_dldata = <<>>
    /\ ops = <<[op |-> "cmd07", res |-> [kind |-> "ok", value |-> 0], old |-> 0]>>
    /\ cb = None /\ n_dl = 0 /\ accepted = <<>> /\ popped = <<>>
    /\ InitIdle

\* a step of the main loop
LiveLoop ==
    \/ \E ack \in Acks07 : LoopPoll(ack)
    \/ \E ack \in LiveAcks06 : LoopReadDataAt(ack, n_ul)
    \/ \E ok \in BOOLEAN : LoopSendUldata(ok)
    \/ LoopPop
    \/ \E ok \in BOOLEAN : LoopSendResult(ok)
    \/ \E ack \in Acks03 : LoopSetTx(ack)
    \/ \E ack \in Acks05 : LoopWriteData(ack)
    \/ \E ack \in Acks03 : LoopRestoreRxErr(ack)
    \/ \E ack \in Acks03 : LoopRestoreRx(ack)

NextLive ==
    \/ LiveLoop
    \/ \E payload \in DlPayloads : OnDlData(LiveAddr, payload)
    \/ \E ok \in BOOLEAN : OnDlDataResult(ok)

SpecLive == InitLive /\ [][NextLive]_vars /\ WF_vars(LiveLoop)

\* the last dongle command or broker send of the loop returned an error
OpFailed(o) ==
    \/ o.op \in {"new", "send_uldata", "send_dldata_result"} /\ ~o.ok
    \/ o.op \in {"cmd03", "cmd05"} /\ o.res # "ok"
    \/ o.op = "cmd07" /\ o.res.kind # "ok"
    \/ o.op = "cmd06" /\ o.res = "err"
LastOpFailed == ops # <<>> /\ OpFailed(ops[Len(ops)])

\* an uplink of A has just been read
UplinkReceived == pc = "send_uldata" /\ format_addr(rx.node_id) = LiveAddr

\* every downlink in A's queue has at most 16 hex characters
ShortPayloads == \A i \in 1..Len(QueueOf(LiveAddr)) : ~exceeds_limit(QueueOf(LiveAddr)[i])

QueuedForA(id) == \E i \in 1..Len(QueueOf(LiveAddr)) : QueueOf(LiveAddr)[i].data_id = id
Transmitted(id) == \E i \in 1..Len(latest_dldata) :
                      latest_dldata[i].data_id = id /\ latest_dldata[i].sent # ""

\* C40 as claimed: if from some point on every dongle command and every
\* broker send succeeds, uplinks of A keep being received and the downlinks
\* queued for A have at most 16 hex characters, then every downlink that is
\* ever queued for A is eventually transmitted and in the downlink history.
C40_EveryQueuedDownlinkDrains ==
    (<>[]~LastOpFailed /\ []<>UplinkReceived /\ []ShortPayloads) =>
        \A id \in 1..MaxDl : [](QueuedForA(id) => <>Transmitted(id))

\* C40 amended: the downlinks that are in A's queue at or after the point
\* from which everything succeeds are eventually transmitted and in the
\* downlink history.
C40_QueuedFromThenOnDrains ==
    \A id \in 1..MaxDl :
        []((QueuedForA(id) /\ []~LastOpFailed /\ []<>UplinkReceived /\ []ShortPayloads)
            => <>Transmitted(id))

\* C40 witness: a downlink of A reached the history while another one is in
\* A's queue, after a command that succeeded
C40_Witness ==
    /\ \E id \in 1..MaxDl : Transmitted(id)
    /\ \E id \in 1..MaxDl : QueuedForA(id)
    /\ ~LastOpFailed

====
